---- MODULE Spec2Model ----
(***************************************************************************)
(* Ticket lifecycle and notification fan-out of node_conectate_ofi.        *)
(*                                                                         *)
(* The store (tickets, ticket_estados_historial, ticket_adjuntos,          *)
(* notificaciones) is the state.  Every request handler is a process that  *)
(* advances one store call (one await) at a time, so handlers interleave   *)
(* exactly where the JavaScript code can be suspended.  Rows written       *)
(* inside a Sequelize transaction carry the owning request in their tx     *)
(* field and are invisible to every other request until the commit step    *)
(* clears it; a rollback removes them.                                     *)
(***************************************************************************)
EXTENDS Integers, Sequences, FiniteSets, TLC

\* ------------------------------------------------------------------ bounds
MaxReqs == 2        \* request handlers that run (and may overlap) in one behaviour
MaxTickets == 2     \* ticket ids the store may hand out
MaxFiles == 1       \* files in one upload request
MaxUsuarios == 2    \* rows of the usuarios table when recipients are resolved
MaxCorridas == 2    \* enviarEmailsPorTicketCreado calls in one behaviour

Reqs == 1..MaxReqs
TicketIds == 1..MaxTickets
Corridas == 1..MaxCorridas

\* --------------------------------------------------------- reference data
\* tickets.estado as the controllers use it.
ESTADOS_VALIDOS == {"abierto", "pendiente", "autorizado", "rechazado", "cerrado"}
ESTADOS_EDITABLES == {"abierto", "pendiente", "pendiente_adjuntos"}
Estados == ESTADOS_VALIDOS \cup {"pendiente_adjuntos"}

\* Users known to the identity collaborator: id -> rol, sucursal (0 = NULL),
\* whether an email address is set, and whether the account is active.
Usuarios ==
  [u \in 1..3 |->
     CASE u = 1 -> [rol |-> "operador_sucursal", sucursal |-> 1, email |-> TRUE,  activo |-> TRUE]
       [] u = 2 -> [rol |-> "supervisor",        sucursal |-> 1, email |-> TRUE,  activo |-> TRUE]
       [] u = 3 -> [rol |-> "admin",             sucursal |-> 0, email |-> FALSE, activo |-> TRUE]]
UserIds == DOMAIN Usuarios
Sucursales == {1, 2}

\* Raw request values.
EntradasEstado ==
  {"abierto", "autorizado", "cerrado", " CERRADO ", "pendiente_adjuntos", ""}
EntradasSucursal == {"", "1", "9", "x"}
Comentarios == {"", "obs"}

VARIABLES
  tickets,     \* TicketIds -> ticket row
  historial,   \* sequence of ticket_estados_historial rows, in insertion order
  adjuntos,    \* set of ticket_adjuntos rows
  notifs,      \* set of notificaciones rows
  lock,        \* TicketIds -> request holding the row lock (0 = none)
  nextTicket,  \* next autoincrement id of tickets
  nextAdj,     \* next autoincrement id of ticket_adjuntos
  req,         \* Reqs -> the request handler's position and locals
  resp,        \* the HTTP response sent last
  logs,        \* set of logs_actividad rows
  logOk,       \* whether LogsActividadModel.create succeeds
  disparos,    \* detached enviarEmailsPorTicketCreado calls made so far
  poblacion,   \* the usuarios table the recipient queries run on
  consulta,    \* the recipient resolution made last and what it returned
  corridas,    \* Corridas -> position and locals of one enviarEmailsPorTicketCreado call
  envios       \* <<ticket, user>> -> sendTicketCreatedMail calls made so far

vars == <<tickets, historial, adjuntos, notifs, lock, nextTicket, nextAdj, req, resp,
          logs, logOk, disparos, poblacion, consulta, corridas, envios>>

NoTicket ==
  [existe |-> FALSE, tx |-> 0, estado |-> "", creador |-> 0, sucursal |-> 0,
   cierre |-> FALSE, obs |-> <<>>]

Idle ==
  [op |-> "idle", pc |-> "idle", ticket |-> 0, nuevo |-> "", coment |-> "",
   antes |-> "", prevObs |-> <<>>, entrada |-> "", nfiles |-> 0,
   principal |-> "undef", demoted |-> {}, txEstado |-> "", finalizo |-> FALSE,
   nuevos |-> {}, adj |-> 0, notif |-> <<>>, actor |-> 0, suc |-> 0]

\* A call of enviarEmailsPorTicketCreado that has not started: its ticket,
\* the destinations of the notifications it loaded, the one it is on, and
\* what became of the send.
SinCorrida == [pc |-> "idle", ticket |-> 0, lista |-> <<>>, pos |-> 0, envio |-> ""]

\* What the request handlers never write: the usuarios table, the recipient
\* queries run on their own, and the detached email delivery.
varsAparte == <<poblacion, consulta, corridas, envios>>

\* A handler that has answered holds nothing any more.
Fin == [Idle EXCEPT !.op = "fin", !.pc = "done"]

NoResp ==
  [op |-> "", ticket |-> 0, status |-> 0, kind |-> "", finalizo |-> FALSE,
   pedido |-> "", puede |-> FALSE, actor |-> 0, filas |-> {}]

\* res.status(st).json(...): handler r answers and ends.
Responde(r, op, t, st, kd, fz) ==
  /\ req' = [req EXCEPT ![r] = Fin]
  /\ resp' = [NoResp EXCEPT !.op = op, !.ticket = t, !.status = st, !.kind = kd,
                            !.finalizo = fz]

\* The same for a cambiar-estado request refused before any write; the
\* response is kept together with the request it answers (the normalised
\* nuevo_estado and whether the caller is supervisor or admin).
Rechaza(r, t, st, kd, e, puede) ==
  /\ req' = [req EXCEPT ![r] = Fin]
  /\ resp' = [NoResp EXCEPT !.op = "cambiar", !.ticket = t, !.status = st, !.kind = kd,
                            !.pedido = e, !.puede = puede]

\* ------------------------------------------------------------ store views
\* What a read outside the owning transaction sees.
Visible(t) == t \in TicketIds /\ tickets[t].existe /\ tickets[t].tx = 0
VisTickets == [t \in TicketIds |-> IF Visible(t) THEN tickets[t] ELSE NoTicket]
VisHist == SelectSeq(historial, LAMBDA h: h.tx = 0)
VisAdj == {a \in adjuntos : a.tx = 0}
VisNotifs == {n \in notifs : n.tx = 0}
VisibleDB == <<VisTickets, VisHist, VisAdj, VisNotifs>>

HistDe(t) == SelectSeq(historial, LAMBDA h: h.tx = 0 /\ h.ticket = t)

\* ------------------------------------------------------- pure functions
\* String(nuevo_estado || '').trim().toLowerCase()
Normalizar(s) ==
  CASE s = " CERRADO " -> "cerrado"
    [] OTHER -> s

\* Number(sucursal_id): 0 stands for NaN.
NumeroDe(s) ==
  CASE s = "1" -> 1
    [] s = "2" -> 2
    [] s = "9" -> 9
    [] OTHER -> 0

\* The rows of a findAll, in primary-key order.
RECURSIVE EnOrden(_)
EnOrden(S) ==
  IF S = {} THEN <<>>
  ELSE LET m == CHOOSE x \in S : \A y \in S : x <= y
       IN <<m>> \o EnOrden(S \ {m})

\* arr.findIndex((x) => x.id === u.id)
FindIndex(arr, u) ==
  CHOOSE i \in 1..Len(arr) : arr[i] = u /\ \A j \in 1..(i - 1) : arr[j] # u

\* (variant: the filter keeps repeated users)
ListaDestinatarios_SinDedup(pob, creador) ==
  LET operador == IF creador \in DOMAIN pob THEN <<creador>> ELSE <<>>
      supervisores ==
        EnOrden({u \in DOMAIN pob : pob[u].rol = "supervisor" /\ pob[u].activo})
      todos == operador \o supervisores
      quedan == EnOrden({i \in 1..Len(todos) : pob[todos[i]].email})
  IN [k \in 1..Len(quedan) |-> todos[quedan[k]]]

\* (variant: users without email are kept)
ListaDestinatarios_ConSinEmail(pob, creador) ==
  LET operador == IF creador \in DOMAIN pob THEN <<creador>> ELSE <<>>
      supervisores ==
        EnOrden({u \in DOMAIN pob : pob[u].rol = "supervisor" /\ pob[u].activo})
      todos == operador \o supervisores
      quedan == EnOrden({i \in 1..Len(todos) : FindIndex(todos, todos[i]) = i})
  IN [k \in 1..Len(quedan) |-> todos[quedan[k]]]

\* obtenerDestinatariosTicketCreado: the creating operator followed by every
\* active supervisor (of any branch), filtered to those with an email and to
\* the first occurrence of each user.
ListaDestinatarios(pob, creador) ==
  LET operador == IF creador \in DOMAIN pob THEN <<creador>> ELSE <<>>
      supervisores ==
        EnOrden({u \in DOMAIN pob : pob[u].rol = "supervisor" /\ pob[u].activo})
      todos == operador \o supervisores
      quedan == EnOrden({i \in 1..Len(todos) :
                           pob[todos[i]].email /\ FindIndex(todos, todos[i]) = i})
  IN [k \in 1..Len(quedan) |-> todos[quedan[k]]]

\* The recipients of a fan-out over the users of the lifecycle model.
Destinatarios(creador) ==
  {ListaDestinatarios(Usuarios, creador)[i] :
     i \in DOMAIN ListaDestinatarios(Usuarios, creador)}

\* crearNotificacionesPorTicketCreado over a users table: for each recipient
\* in turn an interno/enviado row and then an email/pendiente row.
FilasFanoutSeq(pob, t, creador) ==
  LET dest == ListaDestinatarios(pob, creador)
  IN [k \in 1..(2 * Len(dest)) |->
        [ticket |-> t, destino |-> dest[(k + 1) \div 2],
         canal |-> IF k % 2 = 1 THEN "interno" ELSE "email",
         estado_envio |-> IF k % 2 = 1 THEN "enviado" ELSE "pendiente"]]

\* (variant: the global-supervisor tier is skipped)
obtenerDestinatariosSupervisionPorSucursal_SinGlobales(pob, sucursalId) ==
  LET mismaSucursal == {u \in DOMAIN pob : pob[u].rol = "supervisor"
                          /\ pob[u].activo /\ pob[u].sucursal = sucursalId}
      admins == {u \in DOMAIN pob : pob[u].rol = "admin" /\ pob[u].activo}
  IN IF mismaSucursal # {} THEN mismaSucursal ELSE admins

\* obtenerDestinatariosSupervisionPorSucursal: the first non-empty of three
\* queries (sucursal 0 stands for NULL).
obtenerDestinatariosSupervisionPorSucursal(pob, sucursalId) ==
  LET supervisoresMismaSucursal ==
        {u \in DOMAIN pob : pob[u].rol = "supervisor" /\ pob[u].activo
                              /\ pob[u].sucursal = sucursalId}
      supervisoresGlobales ==
        {u \in DOMAIN pob : pob[u].rol = "supervisor" /\ pob[u].activo
                              /\ pob[u].sucursal = 0}
      admins == {u \in DOMAIN pob : pob[u].rol = "admin" /\ pob[u].activo}
  IN IF supervisoresMismaSucursal # {} THEN supervisoresMismaSucursal
     ELSE IF supervisoresGlobales # {} THEN supervisoresGlobales
     ELSE admins

\* crearNotificacionesPorTicketCreado: one interno/enviado and one
\* email/pendiente row per recipient, written in transaction r; fecha_envio
\* and fecha_lectura are left NULL (0).
FilasFanout(t, creador, r) ==
  {[ticket |-> t, destino |-> d, canal |-> c,
    estado_envio |-> IF c = "interno" THEN "enviado" ELSE "pendiente",
    fecha |-> 0, lectura |-> 0, by |-> r, tx |-> r] : d \in Destinatarios(creador), c \in {"interno", "email"}}

\* No recipient resolution has been made.
NoConsulta ==
  [tipo |-> "", sucursal |-> 0, creador |-> 0, usuarios |-> {}, filas |-> <<>>]

\* ------------------------------------------------------------------ Init
\* The store at start-up holds what earlier requests committed: nothing, or
\* one ticket created by CR_Ticket_CTS (pendiente, its first history entry and
\* its fan-out rows), or one ticket that the attachment-gated creation path
\* left in pendiente_adjuntos (its first history entry, no notification yet).
Semillas == {"vacio", "pendiente", "pendiente_adjuntos"}

SeedTicket(e) ==
  [existe |-> TRUE, tx |-> 0, estado |-> e, creador |-> 1, sucursal |-> 1,
   cierre |-> FALSE, obs |-> <<>>]
SeedHist(e) ==
  <<[ticket |-> 1, anterior |-> "null", nuevo |-> e, coment |-> "Ticket creado",
     by |-> 0, tx |-> 0]>>
SeedNotifs(e) ==
  IF e = "pendiente"
  THEN {[n EXCEPT !.tx = 0, !.by = 0] : n \in FilasFanout(1, 1, 0)}
  ELSE {}

InitAlmacen ==
  /\ \E s \in Semillas :
       /\ tickets = [t \in TicketIds |->
                       IF s # "vacio" /\ t = 1 THEN SeedTicket(s) ELSE NoTicket]
       /\ historial = IF s # "vacio" THEN SeedHist(s) ELSE <<>>
       /\ notifs = IF s # "vacio" THEN SeedNotifs(s) ELSE {}
       /\ nextTicket = IF s # "vacio" THEN 2 ELSE 1
  /\ adjuntos = {}
  /\ lock = [t \in TicketIds |-> 0]
  /\ nextAdj = 1
  /\ req = [r \in Reqs |-> Idle]
  /\ resp = NoResp
  /\ logs = {}
  /\ logOk = TRUE
  /\ disparos = {}
  /\ consulta = NoConsulta
  /\ corridas = [w \in Corridas |-> SinCorrida]
  /\ envios = [k \in TicketIds \X UserIds |-> 0]

Init == InitAlmacen /\ poblacion = Usuarios

\* Handlers are interchangeable: slot r starts once slot r-1 has started.
PuedeIniciar(r) ==
  /\ req[r].op = "idle"
  /\ IF r = 1 THEN TRUE ELSE req[r - 1].op # "idle"

\* ---------------------------------------------------- CR_Ticket_CTS (Create)
\* (variant: the insert is not bound to the transaction)
FilaTicketNueva_SinTx(actor, suc, r) ==
  [existe |-> TRUE, tx |-> 0, estado |-> "pendiente", creador |-> actor,
   sucursal |-> suc, cierre |-> FALSE, obs |-> <<>>]

\* The row TicketsModel.create(..., {transaction}) inserts.
FilaTicketNueva(actor, suc, r) ==
  [existe |-> TRUE, tx |-> r, estado |-> "pendiente", creador |-> actor,
   sucursal |-> suc, cierre |-> FALSE, obs |-> <<>>]

\* (variant: the branch of the user context is not looked at)
EntradaInvalida_SinContexto(camposOk, suc, sucursalCtx) ==
  \/ ~camposOk
  \/ suc # "" /\ (NumeroDe(suc) = 0 \/ NumeroDe(suc) \notin Sucursales)

\* The 400 answers of CR_Ticket_CTS: fecha_ticket or asunto missing,
\* sucursal_id not numeric, sucursal_id of no branch, no sucursal_id and no
\* branch in the user context.
EntradaInvalida(camposOk, suc, sucursalCtx) ==
  \/ ~camposOk
  \/ suc # "" /\ (NumeroDe(suc) = 0 \/ NumeroDe(suc) \notin Sucursales)
  \/ suc = "" /\ sucursalCtx = 0

\* Validation, transaction start, the tickets insert and the synthetic first
\* history entry, for a request of user actor.  When one of the two inserts raises, nothing of the
\* transaction was visible and the catch block rolls it back and answers 500.
CR_BeginDe(r, actor, camposOk, suc, falla) ==
  /\ PuedeIniciar(r)
  /\ LET sid == NumeroDe(suc)
         sucFinal == IF suc # "" THEN sid ELSE Usuarios[actor].sucursal
         invalido == EntradaInvalida(camposOk, suc, Usuarios[actor].sucursal)
       IN IF invalido
          THEN /\ Responde(r, "create", 0, 400, "validacion", FALSE)
               /\ UNCHANGED <<tickets, historial, nextTicket>>
          ELSE /\ nextTicket <= MaxTickets
               /\ nextTicket' = nextTicket + 1
               /\ IF falla
                  THEN /\ Responde(r, "create", nextTicket, 500, "error_servidor", FALSE)
                       /\ UNCHANGED <<tickets, historial>>
                  ELSE /\ tickets' = [tickets EXCEPT ![nextTicket] =
                            FilaTicketNueva(actor, sucFinal, r)]
                       /\ historial' = Append(historial,
                            [ticket |-> nextTicket, anterior |-> "null",
                             nuevo |-> "pendiente", coment |-> "Ticket creado",
                             by |-> r, tx |-> r])
                       /\ req' = [req EXCEPT ![r] =
                            [Idle EXCEPT !.op = "create", !.ticket = nextTicket,
                                         !.pc = "cr_fanout"]]
                       /\ UNCHANGED resp
  /\ UNCHANGED <<adjuntos, notifs, lock, nextAdj>>
  /\ UNCHANGED <<logs, logOk, disparos>>
  /\ UNCHANGED varsAparte

CR_Begin(r) ==
  /\ PuedeIniciar(r)
  /\ \E actor \in UserIds, camposOk \in BOOLEAN, suc \in EntradasSucursal,
        falla \in BOOLEAN :
       CR_BeginDe(r, actor, camposOk, suc, falla)

\* crearNotificacionesPorTicketCreado inside the transaction.
CR_Fanout(r) ==
  /\ req[r].pc = "cr_fanout"
  /\ notifs' = notifs \cup
       FilasFanout(req[r].ticket, tickets[req[r].ticket].creador, r)
  /\ req' = [req EXCEPT ![r].pc = "cr_commit"]
  /\ UNCHANGED <<tickets, historial, adjuntos, lock, nextTicket, nextAdj, resp>>
  /\ UNCHANGED <<logs, logOk, disparos>>
  /\ UNCHANGED varsAparte

\* A logs_actividad row: accion, the ticket and the attachment (0 = none).
FilaLog(accion, t, adj) == [accion |-> accion, ticket |-> t, adj |-> adj]

\* (variant: there is no try/catch, a failed write reaches the caller)
registrarLogActividad_Lanza(filas) ==
  /\ logOk
  /\ logs' = logs \cup {f \in filas : f.accion # ""}
  /\ UNCHANGED logOk

\* registrarLogActividad: a call without accion returns at once (modulo is a
\* literal at every call); the rows are written unless the store write raises,
\* which the function swallows.
registrarLogActividad(filas) ==
  /\ logs' = IF logOk THEN logs \cup {f \in filas : f.accion # ""} ELSE logs
  /\ UNCHANGED logOk

\* (variant: the commit discards the transaction)
CommitRows_Deshace(r) ==
  /\ tickets' = [t \in TicketIds |->
                   IF tickets[t].existe /\ tickets[t].tx = r THEN NoTicket ELSE tickets[t]]
  /\ historial' = SelectSeq(historial, LAMBDA h: h.tx # r)
  /\ notifs' = {n \in notifs : n.tx # r}
  /\ adjuntos' = {a \in adjuntos : a.tx # r}
  /\ lock' = [t \in TicketIds |-> IF lock[t] = r THEN 0 ELSE lock[t]]

\* transaction.commit(): every row and pending update of transaction r
\* becomes visible at once.
CommitRows(r) ==
  /\ tickets' = [t \in TicketIds |->
       IF tickets[t].existe /\ tickets[t].tx = r THEN [tickets[t] EXCEPT !.tx = 0]
       ELSE IF req[r].ticket = t /\ req[r].txEstado # ""
            THEN [tickets[t] EXCEPT !.estado = req[r].txEstado]
            ELSE tickets[t]]
  /\ historial' = [i \in DOMAIN historial |->
                     IF historial[i].tx = r
                     THEN [historial[i] EXCEPT !.tx = 0] ELSE historial[i]]
  /\ notifs' = {IF n.tx = r THEN [n EXCEPT !.tx = 0] ELSE n : n \in notifs}
  /\ adjuntos' = {IF a.tx = r THEN [a EXCEPT !.tx = 0]
                  ELSE IF a.id \in req[r].demoted THEN [a EXCEPT !.principal = FALSE]
                  ELSE a : a \in adjuntos}
  /\ lock' = [t \in TicketIds |-> IF lock[t] = r THEN 0 ELSE lock[t]]

\* transaction.rollback(): every row and pending update of transaction r is
\* discarded and its row lock released.
RollbackRows(r) ==
  /\ tickets' = [t \in TicketIds |->
                   IF tickets[t].existe /\ tickets[t].tx = r THEN NoTicket ELSE tickets[t]]
  /\ historial' = SelectSeq(historial, LAMBDA h: h.tx # r)
  /\ notifs' = {n \in notifs : n.tx # r}
  /\ adjuntos' = {a \in adjuntos : a.tx # r}
  /\ lock' = [t \in TicketIds |-> IF lock[t] = r THEN 0 ELSE lock[t]]

CR_Commit(r) ==
  /\ req[r].pc = "cr_commit"
  /\ CommitRows(r)
  /\ req' = [req EXCEPT ![r].pc = "cr_post"]
  /\ UNCHANGED <<nextTicket, nextAdj, resp, logs, logOk, disparos>>
  /\ UNCHANGED varsAparte

\* After the commit: registrarLogActividad (awaited; a failed write is
\* swallowed), the detached enviarEmailsPorTicketCreado call, res.json.
CR_Post(r) ==
  /\ req[r].pc = "cr_post"
  /\ registrarLogActividad({FilaLog("CREAR", req[r].ticket, 0)})
  /\ disparos' = disparos \cup {req[r].ticket}
  /\ Responde(r, "create", req[r].ticket, 200, "ok", FALSE)
  /\ UNCHANGED <<tickets, historial, adjuntos, notifs, lock, nextTicket, nextAdj>>
  /\ UNCHANGED varsAparte

\* A notification insert of the fan-out raises, or the commit does: the
\* exception reaches the catch block, which rolls back and answers 500.
CR_Fail(r) ==
  /\ req[r].pc \in {"cr_fanout", "cr_commit"}
  /\ RollbackRows(r)
  /\ Responde(r, "create", req[r].ticket, 500, "error_servidor", FALSE)
  /\ UNCHANGED <<nextTicket, nextAdj>>
  /\ UNCHANGED <<logs, logOk, disparos>>
  /\ UNCHANGED varsAparte

\* ------------------------------------- CR_Ticket_CambiarEstado_CTS (ChangeState)
\* (variant: any non-empty value passes)
EstadoValido_Cualquiera(e) == e # ""

\* (variant: pendiente_adjuntos passes as well)
EstadoValido_ConEspera(e) == e # "" /\ e \in Estados

\* !estadoNormalizado || !ESTADOS_VALIDOS.includes(estadoNormalizado)
EstadoValido(e) == e # "" /\ e \in ESTADOS_VALIDOS

\* (variant: every role may change the state)
PuedeCambiarEstado_Todos(rol) == TRUE

\* rol === 'supervisor' || rol === 'admin'
PuedeCambiarEstado(rol) == rol \in {"supervisor", "admin"}

\* (variant: the no-change check is absent)
SinCambio_Nunca(actual, e) == FALSE

\* estadoAnterior === estadoNormalizado
SinCambio(actual, e) == actual = e

\* (variant: the closed check is absent)
YaCerrado_Nunca(actual) == FALSE

\* estadoAnterior === 'cerrado'
YaCerrado(actual) == actual = "cerrado"

\* Normalisation and validation of nuevo_estado, findByPk, role check,
\* no-change check, closed check, for a request of user actor with
\* nuevo_estado entrada and comentario c on ticket t.  No transaction and no
\* lock are taken.
CS_BeginDe(r, actor, t, entrada, c) ==
  /\ PuedeIniciar(r)
  /\ LET e == Normalizar(entrada)
         puede == PuedeCambiarEstado(Usuarios[actor].rol)
       IN IF ~EstadoValido(e)
          THEN Rechaza(r, t, 400, "estado_invalido", e, puede)
          ELSE IF ~Visible(t)
          THEN Rechaza(r, t, 404, "no_encontrado", e, puede)
          ELSE IF ~puede
          THEN Rechaza(r, t, 403, "sin_permiso", e, puede)
          ELSE IF SinCambio(tickets[t].estado, e)
          THEN Rechaza(r, t, 400, "sin_cambio", e, puede)
          ELSE IF YaCerrado(tickets[t].estado)
          THEN Rechaza(r, t, 400, "ya_cerrado", e, puede)
          ELSE /\ req' = [req EXCEPT ![r] =
                    [Idle EXCEPT !.op = "cambiar", !.pc = "cs_hist", !.ticket = t,
                                 !.nuevo = e, !.coment = c,
                                 !.antes = tickets[t].estado,
                                 !.prevObs = tickets[t].obs]]
               /\ UNCHANGED resp
  /\ UNCHANGED <<tickets, historial, adjuntos, notifs, lock, nextTicket, nextAdj>>
  /\ UNCHANGED <<logs, logOk, disparos>>
  /\ UNCHANGED varsAparte

CS_Begin(r) ==
  /\ PuedeIniciar(r)
  /\ \E actor \in UserIds, t \in TicketIds, entrada \in EntradasEstado, c \in Comentarios :
       CS_BeginDe(r, actor, t, entrada, c)

\* TicketEstadosHistorialModel.create, outside any transaction.
CS_Hist(r) ==
  /\ req[r].pc = "cs_hist"
  /\ historial' = Append(historial,
       [ticket |-> req[r].ticket, anterior |-> req[r].antes, nuevo |-> req[r].nuevo,
        coment |-> req[r].coment, by |-> r, tx |-> 0])
  /\ req' = [req EXCEPT ![r].pc = "cs_update"]
  /\ UNCHANGED <<tickets, adjuntos, notifs, lock, nextTicket, nextAdj, resp>>
  /\ UNCHANGED <<logs, logOk, disparos>>
  /\ UNCHANGED varsAparte

\* The row TicketsModel.update(updates, {where: {id}}) writes, computed from
\* the values read in CS_Begin.
FilaCambiada(fila, nuevo, coment, prevObs) ==
  [fila EXCEPT
     !.estado = nuevo,
     !.cierre = IF nuevo = "cerrado" THEN TRUE ELSE @,
     !.obs = IF coment # "" /\ nuevo \in {"autorizado", "rechazado", "cerrado"}
             THEN Append(prevObs, coment) ELSE @]

\* The UPDATE waits while a transaction holds the row lock.
CS_Update(r) ==
  /\ req[r].pc = "cs_update"
  /\ lock[req[r].ticket] = 0
  /\ tickets' = [tickets EXCEPT ![req[r].ticket] =
       IF Visible(req[r].ticket)
       THEN FilaCambiada(@, req[r].nuevo, req[r].coment, req[r].prevObs) ELSE @]
  /\ registrarLogActividad({FilaLog("CAMBIAR_ESTADO", req[r].ticket, 0)})
  /\ Responde(r, "cambiar", req[r].ticket, 200, "ok", FALSE)
  /\ UNCHANGED <<historial, adjuntos, notifs, lock, nextTicket, nextAdj, disparos>>
  /\ UNCHANGED varsAparte

\* A store call raises: the catch block answers 500; nothing is undone.
CS_Fail(r) ==
  /\ req[r].pc \in {"cs_hist", "cs_update"}
  /\ Responde(r, "cambiar", req[r].ticket, 500, "error_servidor", FALSE)
  /\ UNCHANGED <<tickets, historial, adjuntos, notifs, lock, nextTicket, nextAdj>>
  /\ UNCHANGED <<logs, logOk, disparos>>
  /\ UNCHANGED varsAparte

\* --------------------------------------- CR_TicketAdjunto_CTS (AttachFiles)
\* (variant: without es_principal nothing is designated)
EsPrincipalGlobal_SoloFlag(flag, t) == flag = "true"

\* es_principal of the request body.
EsPrincipalGlobal(flag, t) ==
  IF flag # "undef" THEN flag = "true"
  ELSE ~\E a \in adjuntos : a.tx = 0 /\ a.ticket = t /\ a.principal

\* (variant: the read takes no lock)
LockLibre_SinLock(t) == TRUE

\* findByPk(..., {lock: transaction.LOCK.UPDATE}) returns once no other
\* transaction holds the row lock.
LockLibre(t) == lock[t] = 0

\* (variant: the creator test for operators is missing)
assertTicketPermission_SinCreador(fila, actor, requireEditableState) ==
  IF requireEditableState /\ fila.estado \notin ESTADOS_EDITABLES THEN 400
  ELSE 0

\* assertTicketPermission for a ticket that exists: the status it throws, or
\* 0 when it returns.
assertTicketPermission(fila, actor, requireEditableState) ==
  IF Usuarios[actor].rol = "operador_sucursal" /\ fila.creador # actor THEN 403
  ELSE IF requireEditableState /\ fila.estado \notin ESTADOS_EDITABLES THEN 400
  ELSE 0

\* Transaction start, findByPk with LOCK.UPDATE (waits for the row lock),
\* assertTicketPermission with requireEditableState, for a request of user
\* actor with n files for ticket t.
AF_BeginDe(r, actor, t, n, flag) ==
  /\ PuedeIniciar(r)
  /\ IF n = 0
     THEN /\ Responde(r, "adjuntar", t, 400, "sin_archivos", FALSE)
          /\ UNCHANGED lock
     ELSE IF ~Visible(t)
     THEN /\ Responde(r, "adjuntar", t, 404, "no_encontrado", FALSE)
          /\ UNCHANGED lock
     ELSE /\ LockLibre(t)
          /\ IF assertTicketPermission(tickets[t], actor, TRUE) = 403
             THEN /\ Responde(r, "adjuntar", t, 403, "sin_permiso", FALSE)
                  /\ UNCHANGED lock
             ELSE IF assertTicketPermission(tickets[t], actor, TRUE) = 400
             THEN /\ Responde(r, "adjuntar", t, 400, "no_editable", FALSE)
                  /\ UNCHANGED lock
             ELSE /\ lock' = [lock EXCEPT ![t] = r]
                  /\ req' = [req EXCEPT ![r] =
                       [Idle EXCEPT !.op = "adjuntar", !.pc = "af_write", !.ticket = t,
                                    !.entrada = tickets[t].estado, !.nfiles = n,
                                    !.principal = flag]]
                  /\ UNCHANGED resp
  /\ UNCHANGED <<tickets, historial, adjuntos, notifs, nextTicket, nextAdj>>
  /\ UNCHANGED <<logs, logOk, disparos>>
  /\ UNCHANGED varsAparte

AF_Begin(r) ==
  /\ PuedeIniciar(r)
  /\ \E actor \in UserIds, t \in TicketIds, n \in 0..MaxFiles,
        flag \in {"undef", "true", "false"} :
       AF_BeginDe(r, actor, t, n, flag)

\* (variant: no sibling is demoted)
ADemover_Nadie(t, esPrincipal) == {}

\* TicketAdjuntosModel.update({es_principal: 0}, {where: {ticket_id}}) when the
\* request designates a primary: the ids of the rows it writes.
ADemover(t, esPrincipal) ==
  IF esPrincipal THEN {a.id : a \in {x \in adjuntos : x.tx = 0 /\ x.ticket = t}}
  ELSE {}

\* (variant: the inserts are not bound to the transaction)
FilasAdjuntos_SinTx(t, n, esPrincipal, r) ==
  {[id |-> nextAdj + i, ticket |-> t, principal |-> (esPrincipal /\ i = 0), tx |-> 0]
     : i \in 0..(n - 1)}

\* The attachment rows of the request: ids from the autoincrement counter,
\* the first one primary when the request designates a primary.
FilasAdjuntos(t, n, esPrincipal, r) ==
  {[id |-> nextAdj + i, ticket |-> t, principal |-> (esPrincipal /\ i = 0), tx |-> r]
     : i \in 0..(n - 1)}

\* (variant: the gate never fires)
GateAbierto_Nunca(entrada, adjCount) == FALSE

\* (variant: the state read on entry is not looked at)
GateAbierto_SinEstado(entrada, adjCount) == adjCount >= 1

\* (variant: the gate fires on the upload that leaves one attachment)
GateAbierto_PrimerAdjunto(entrada, adjCount) == adjCount = 1

\* String(ticket.estado) === 'pendiente_adjuntos' and adjCount >= 1
GateAbierto(entrada, adjCount) == entrada = "pendiente_adjuntos" /\ adjCount >= 1

\* Inside the transaction: primary count, demotion of the siblings, the
\* attachment inserts, and the gate (ticket update, history entry, fan-out)
\* when the ticket was read in pendiente_adjuntos.
AF_Write(r) ==
  /\ req[r].pc = "af_write"
  /\ LET t == req[r].ticket
         esP == EsPrincipalGlobal(req[r].principal, t)
         adjCount == Cardinality({a \in adjuntos : a.tx = 0 /\ a.ticket = t})
                       + req[r].nfiles
         gate == GateAbierto(req[r].entrada, adjCount)
     IN /\ adjuntos' = adjuntos \cup FilasAdjuntos(t, req[r].nfiles, esP, r)
        /\ nextAdj' = nextAdj + req[r].nfiles
        /\ historial' =
             IF gate
             THEN Append(historial,
                    [ticket |-> t, anterior |-> "pendiente_adjuntos",
                     nuevo |-> "pendiente", coment |-> "Adjuntos cargados",
                     by |-> r, tx |-> r])
             ELSE historial
        /\ notifs' = IF gate THEN notifs \cup FilasFanout(t, tickets[t].creador, r)
                     ELSE notifs
        /\ req' = [req EXCEPT
             ![r].pc = "af_commit",
             ![r].demoted = ADemover(t, esP),
             ![r].txEstado = IF gate THEN "pendiente" ELSE "",
             ![r].finalizo = gate,
             ![r].nuevos = {a.id : a \in FilasAdjuntos(t, req[r].nfiles, esP, r)}]
  /\ UNCHANGED <<tickets, lock, nextTicket, resp>>
  /\ UNCHANGED <<logs, logOk, disparos>>
  /\ UNCHANGED varsAparte

AF_Commit(r) ==
  /\ req[r].pc = "af_commit"
  /\ CommitRows(r)
  /\ req' = [req EXCEPT ![r].pc = "af_post"]
  /\ UNCHANGED <<nextTicket, nextAdj, resp, logs, logOk, disparos>>
  /\ UNCHANGED varsAparte

\* After the commit: one registrarLogActividad per new attachment and, when
\* the gate fired, the CONFIRMAR log and the detached
\* enviarEmailsPorTicketCreado call; then res.json.
AF_Post(r) ==
  /\ req[r].pc = "af_post"
  /\ LET t == req[r].ticket
         porAdjunto == {FilaLog("CREAR_ADJUNTO", t, a) : a \in req[r].nuevos}
         porGate == IF req[r].finalizo THEN {FilaLog("CONFIRMAR", t, 0)} ELSE {}
     IN /\ registrarLogActividad(porAdjunto \cup porGate)
        /\ disparos' = IF req[r].finalizo THEN disparos \cup {t} ELSE disparos
  /\ Responde(r, "adjuntar", req[r].ticket, 200, "ok", req[r].finalizo)
  /\ UNCHANGED <<tickets, historial, adjuntos, notifs, lock, nextTicket, nextAdj>>
  /\ UNCHANGED varsAparte

\* A store call of the transaction raises: catch block, rollback, 500.
AF_Fail(r) ==
  /\ req[r].pc \in {"af_write", "af_commit"}
  /\ RollbackRows(r)
  /\ Responde(r, "adjuntar", req[r].ticket, 500, "error_servidor", FALSE)
  /\ UNCHANGED <<nextTicket, nextAdj>>
  /\ UNCHANGED <<logs, logOk, disparos>>
  /\ UNCHANGED varsAparte

Next ==
  \E r \in Reqs :
    \/ CR_Begin(r)
    \/ CR_Fanout(r)
    \/ CR_Commit(r)
    \/ CR_Post(r)
    \/ CR_Fail(r)
    \/ CS_Begin(r)
    \/ CS_Hist(r)
    \/ CS_Update(r)
    \/ CS_Fail(r)
    \/ AF_Begin(r)
    \/ AF_Write(r)
    \/ AF_Commit(r)
    \/ AF_Post(r)
    \/ AF_Fail(r)

Spec == Init /\ [][Next]_vars

\* The same handlers over a store whose calls never raise after validation.
NextSinFallos ==
  \E r \in Reqs :
    \/ CR_Begin(r)
    \/ CR_Fanout(r)
    \/ CR_Commit(r)
    \/ CR_Post(r)
    \/ CS_Begin(r)
    \/ CS_Hist(r)
    \/ CS_Update(r)
    \/ AF_Begin(r)
    \/ AF_Write(r)
    \/ AF_Commit(r)
    \/ AF_Post(r)

SpecSinFallos == Init /\ [][NextSinFallos]_vars

\* ------------------------------------ ER_TicketAdjunto_CTS (attachment delete)
\* findByPk of the attachment with its ticket, assertTicketPermission with
\* requireEditableState.  No transaction is opened.
ER_Begin(r) ==
  /\ PuedeIniciar(r)
  /\ \E actor \in UserIds, id \in {0} \cup {a.id : a \in adjuntos} :
       LET fila == {a \in adjuntos : a.id = id /\ a.tx = 0}
           t == (CHOOSE a \in fila : TRUE).ticket
       IN IF fila = {}
          THEN Responde(r, "eliminar_adjunto", 0, 404, "no_encontrado", FALSE)
          ELSE IF Usuarios[actor].rol = "operador_sucursal" /\ tickets[t].creador # actor
          THEN Responde(r, "eliminar_adjunto", t, 403, "sin_permiso", FALSE)
          ELSE IF tickets[t].estado \notin ESTADOS_EDITABLES
          THEN Responde(r, "eliminar_adjunto", t, 400, "no_editable", FALSE)
          ELSE /\ req' = [req EXCEPT ![r] =
                    [Idle EXCEPT !.op = "eliminar_adjunto", !.pc = "er_destroy",
                                 !.ticket = t, !.adj = id]]
               /\ UNCHANGED resp
  /\ UNCHANGED <<tickets, historial, adjuntos, notifs, lock, nextTicket, nextAdj,
                 logs, logOk, disparos>>
  /\ UNCHANGED varsAparte

\* TicketAdjuntosModel.destroy({where: {id}}), which waits while a transaction
\* holds the row (a pending demotion); then the log and res.json.
ER_Destroy(r) ==
  /\ req[r].pc = "er_destroy"
  /\ \A q \in Reqs : req[r].adj \notin req[q].demoted
  /\ adjuntos' = {a \in adjuntos : a.id # req[r].adj}
  /\ registrarLogActividad({FilaLog("ELIMINAR", req[r].ticket, req[r].adj)})
  /\ Responde(r, "eliminar_adjunto", req[r].ticket, 200, "ok", FALSE)
  /\ UNCHANGED <<tickets, historial, notifs, lock, nextTicket, nextAdj, disparos>>
  /\ UNCHANGED varsAparte

\* The destroy raises: catch block, 500.
ER_Fail(r) ==
  /\ req[r].pc = "er_destroy"
  /\ Responde(r, "eliminar_adjunto", req[r].ticket, 500, "error_servidor", FALSE)
  /\ UNCHANGED <<tickets, historial, adjuntos, notifs, lock, nextTicket, nextAdj,
                 logs, logOk, disparos>>
  /\ UNCHANGED varsAparte

\* Uploads and attachment deletions on the tickets the store holds.
NextAdjuntos ==
  \E r \in Reqs :
       \/ AF_Begin(r)
       \/ AF_Write(r)
       \/ AF_Commit(r)
       \/ AF_Post(r)
       \/ AF_Fail(r)
       \/ ER_Begin(r)
       \/ ER_Destroy(r)
       \/ ER_Fail(r)

SpecAdjuntos == Init /\ [][NextAdjuntos]_vars

\* The store after one upload with one file ran on a ticket in
\* pendiente_adjuntos and answered: the ticket in pendiente, the gate's
\* history entry, the fan-out rows, the attachment (primary, as the first of
\* the ticket), its log rows and the delivery trigger.
InitTrasGate ==
  /\ tickets = [t \in TicketIds |-> IF t = 1 THEN SeedTicket("pendiente") ELSE NoTicket]
  /\ historial = SeedHist("pendiente_adjuntos") \o
       <<[ticket |-> 1, anterior |-> "pendiente_adjuntos", nuevo |-> "pendiente",
          coment |-> "Adjuntos cargados", by |-> 0, tx |-> 0]>>
  /\ notifs = SeedNotifs("pendiente")
  /\ adjuntos = {[id |-> 1, ticket |-> 1, principal |-> TRUE, tx |-> 0]}
  /\ nextTicket = 2
  /\ nextAdj = 2
  /\ lock = [t \in TicketIds |-> 0]
  /\ req = [r \in Reqs |-> Idle]
  /\ resp = NoResp
  /\ logs = {FilaLog("CREAR_ADJUNTO", 1, 1), FilaLog("CONFIRMAR", 1, 0)}
  /\ logOk = TRUE
  /\ disparos = {1}
  /\ consulta = NoConsulta
  /\ corridas = [w \in Corridas |-> SinCorrida]
  /\ envios = [k \in TicketIds \X UserIds |-> 0]
  /\ poblacion = Usuarios

\* Uploads and attachment deletions on a ticket that passed the gate.
SpecTrasGate == InitTrasGate /\ [][NextAdjuntos]_vars

\* ------------------------------------------------ recipient resolution
\* The two recipient queries are pure functions of the usuarios table; they
\* are run here over every table of MaxUsuarios rows.
Perfiles ==
  [rol : {"operador_sucursal", "supervisor", "admin"}, sucursal : {0, 1, 2},
   email : BOOLEAN, activo : BOOLEAN]
SucursalesTicket == {1, 2}

\* The store variables of the lifecycle handlers, which the queries leave alone.
varsCiclo ==
  <<tickets, historial, adjuntos, notifs, lock, nextTicket, nextAdj, req, resp,
    logs, logOk, disparos>>

InitResolver ==
  /\ poblacion \in [1..MaxUsuarios -> Perfiles]
  /\ consulta = NoConsulta
  /\ tickets = [t \in TicketIds |-> NoTicket]
  /\ historial = <<>>
  /\ adjuntos = {}
  /\ notifs = {}
  /\ lock = [t \in TicketIds |-> 0]
  /\ nextTicket = 1
  /\ nextAdj = 1
  /\ req = [r \in Reqs |-> Idle]
  /\ resp = NoResp
  /\ logs = {}
  /\ logOk = TRUE
  /\ disparos = {}
  /\ corridas = [w \in Corridas |-> SinCorrida]
  /\ envios = [k \in TicketIds \X UserIds |-> 0]

\* obtenerDestinatariosSupervisionPorSucursal(sucursalId) is called.
ResolverSupervision ==
  /\ \E b \in SucursalesTicket :
       consulta' = [NoConsulta EXCEPT
         !.tipo = "supervision", !.sucursal = b,
         !.usuarios = obtenerDestinatariosSupervisionPorSucursal(poblacion, b)]
  /\ UNCHANGED <<poblacion, varsCiclo, corridas, envios>>

\* crearNotificacionesPorTicketCreado is called for a ticket of branch b
\* created by user c.
ResolverFanout ==
  /\ \E b \in SucursalesTicket, c \in DOMAIN poblacion :
       consulta' = [NoConsulta EXCEPT
         !.tipo = "fanout", !.sucursal = b, !.creador = c,
         !.filas = FilasFanoutSeq(poblacion, 1, c)]
  /\ UNCHANGED <<poblacion, varsCiclo, corridas, envios>>

NextResolver == ResolverSupervision \/ ResolverFanout

SpecResolver == InitResolver /\ [][NextResolver]_vars

\* ------------------------------ enviarEmailsPorTicketCreado (email delivery)
\* The function is exported and takes a ticket id; the handlers call it,
\* detached, after the commit of a create or of an enabling upload.  Each call
\* advances one await at a time, so calls overlap with each other and with
\* the request handlers.

\* The usuarios table when the emails go out: an address set when the
\* notifications were written may have been cleared since.
PoblacionesCorreo ==
  {p \in [UserIds -> [rol : {"operador_sucursal", "supervisor", "admin"},
                      sucursal : {0, 1}, email : BOOLEAN, activo : BOOLEAN]] :
     \A u \in UserIds :
       /\ p[u].rol = Usuarios[u].rol /\ p[u].sucursal = Usuarios[u].sucursal
       /\ p[u].activo = Usuarios[u].activo
       /\ p[u].email => Usuarios[u].email}

\* (variant: the findAll does not filter on estado_envio)
PendientesEmail_Todas(t) ==
  {n \in notifs : n.tx = 0 /\ n.ticket = t /\ n.canal = "email"}

\* findAll({where: {ticket_id, canal: 'email', estado_envio: 'pendiente'}})
PendientesEmail(t) ==
  {n \in notifs : n.tx = 0 /\ n.ticket = t /\ n.canal = "email"
                  /\ n.estado_envio = "pendiente"}

\* notif.update({estado_envio, fecha_envio: new Date()}) on the email
\* notification of ticket t for user d (a ticket has one fan-out, so the
\* destination identifies the row).
Marca(t, d, estado) ==
  notifs' = {IF n.tx = 0 /\ n.ticket = t /\ n.destino = d /\ n.canal = "email"
             THEN [n EXCEPT !.estado_envio = estado, !.fecha = 1]
             ELSE n : n \in notifs}

\* (variant: the catch block writes 'enviado' as well)
EstadoTrasEnvio_SiempreEnviado(envio) == "enviado"

\* What the loop body writes after sendTicketCreatedMail resolved ("ok") or
\* threw ("falla").
EstadoTrasEnvio(envio) == IF envio = "ok" THEN "enviado" ELSE "error"

\* (variant: the loop ends at the first notification handled)
Siguiente_Corta(c) == [c EXCEPT !.pc = "done", !.envio = ""]

\* The loop moves to the next notification loaded, or the function returns.
Siguiente(c) ==
  IF c.pos < Len(c.lista)
  THEN [c EXCEPT !.pc = "w_dest", !.pos = c.pos + 1, !.envio = ""]
  ELSE [c EXCEPT !.pc = "done", !.envio = ""]

\* Calls are interchangeable: slot w starts once slot w-1 has started.
PuedeCorrer(w) ==
  /\ corridas[w].pc = "idle"
  /\ IF w = 1 THEN TRUE ELSE corridas[w - 1].pc # "idle"

\* TicketsModel.findByPk(ticketId), then the operador and the sucursal.
W_Begin(w) ==
  /\ PuedeCorrer(w)
  /\ \E t \in TicketIds :
       corridas' = [corridas EXCEPT ![w] =
         IF Visible(t) THEN [SinCorrida EXCEPT !.pc = "w_cargar", !.ticket = t]
         ELSE [SinCorrida EXCEPT !.pc = "done", !.ticket = t]]
  /\ UNCHANGED <<varsCiclo, poblacion, consulta, envios>>

\* The findAll of the pending email notifications; nothing pending, return.
W_Cargar(w) ==
  /\ corridas[w].pc = "w_cargar"
  /\ LET lista == EnOrden({n.destino : n \in PendientesEmail(corridas[w].ticket)})
     IN corridas' = [corridas EXCEPT ![w] =
          IF lista = <<>> THEN [@ EXCEPT !.pc = "done"]
          ELSE [@ EXCEPT !.pc = "w_dest", !.lista = lista, !.pos = 1]]
  /\ UNCHANGED <<varsCiclo, poblacion, consulta, envios>>

\* UsuariosModel.findByPk(notif.usuario_destino_id): without an address the
\* notification is marked error and the loop continues.
W_Destinatario(w) ==
  /\ corridas[w].pc = "w_dest"
  /\ LET c == corridas[w]
         d == c.lista[c.pos]
     IN IF ~poblacion[d].email
        THEN /\ Marca(c.ticket, d, "error")
             /\ corridas' = [corridas EXCEPT ![w] = Siguiente(c)]
        ELSE /\ corridas' = [corridas EXCEPT ![w].pc = "w_send"]
             /\ UNCHANGED notifs
  /\ UNCHANGED <<tickets, historial, adjuntos, lock, nextTicket, nextAdj, req, resp,
                 logs, logOk, disparos>>
  /\ UNCHANGED <<poblacion, consulta, envios>>

\* await sendTicketCreatedMail(...): the transport is invoked and the promise
\* resolves or rejects.
W_Send(w) ==
  /\ corridas[w].pc = "w_send"
  /\ LET c == corridas[w]
         k == <<c.ticket, c.lista[c.pos]>>
     IN /\ envios' = [envios EXCEPT ![k] = @ + 1]
        /\ \E envio \in {"ok", "falla"} :
             corridas' = [corridas EXCEPT ![w].pc = "w_marca", ![w].envio = envio]
  /\ UNCHANGED <<varsCiclo, poblacion, consulta>>

\* The update after the send, or the one of the catch block; next iteration.
W_Marca(w) ==
  /\ corridas[w].pc = "w_marca"
  /\ LET c == corridas[w]
     IN /\ Marca(c.ticket, c.lista[c.pos], EstadoTrasEnvio(c.envio))
        /\ corridas' = [corridas EXCEPT ![w] = Siguiente(c)]
  /\ UNCHANGED <<tickets, historial, adjuntos, lock, nextTicket, nextAdj, req, resp,
                 logs, logOk, disparos>>
  /\ UNCHANGED <<poblacion, consulta, envios>>

\* The store as the handlers left it, and the usuarios table of the moment.
InitCorreo == InitAlmacen /\ poblacion \in PoblacionesCorreo

\* One create request, and email deliveries for the tickets the store holds.
NextCorreo ==
  \/ \E r \in {1} :
       \/ CR_Begin(r)
       \/ CR_Fanout(r)
       \/ CR_Commit(r)
       \/ CR_Post(r)
       \/ CR_Fail(r)
  \/ \E w \in Corridas :
       \/ W_Begin(w)
       \/ W_Cargar(w)
       \/ W_Destinatario(w)
       \/ W_Send(w)
       \/ W_Marca(w)

SpecCorreo == InitCorreo /\ [][NextCorreo]_vars

\* A store call of the try block raised (the findByPk of the destination, or
\* the update after the send): the catch block marks the notification error
\* and the loop continues.
W_Catch(w) ==
  /\ corridas[w].pc \in {"w_dest", "w_marca"}
  /\ LET c == corridas[w]
     IN /\ Marca(c.ticket, c.lista[c.pos], "error")
        /\ corridas' = [corridas EXCEPT ![w] = Siguiente(c)]
  /\ UNCHANGED <<tickets, historial, adjuntos, lock, nextTicket, nextAdj, req, resp,
                 logs, logOk, disparos>>
  /\ UNCHANGED <<poblacion, consulta, envios>>

\* The update of the catch block raises as well: nothing guards it, the
\* exception leaves the loop and the promise of the call is rejected (the
\* caller's .catch logs it).
W_Aborta(w) ==
  /\ corridas[w].pc \in {"w_dest", "w_marca"}
  /\ corridas' = [corridas EXCEPT ![w].pc = "rechazada", ![w].envio = ""]
  /\ UNCHANGED <<varsCiclo, poblacion, consulta, envios>>

\* Deliveries alone, with store calls that may raise.
NextCorreoFallos ==
  \E w \in Corridas :
       \/ W_Begin(w)
       \/ W_Cargar(w)
       \/ W_Destinatario(w)
       \/ W_Send(w)
       \/ W_Marca(w)
       \/ W_Catch(w)
       \/ W_Aborta(w)

SpecCorreoFallos == InitCorreo /\ [][NextCorreoFallos]_vars

\* ------------------------------------------------- UR_Ticket_CTS (update)
\* Raw sucursal_id values of an update ("" = not sent).
EntradasSucursalUR == {"", "2", "9", "x"}

\* findByPk, the editable-state test, the creator test for operators and the
\* validation of sucursal_id.  No transaction and no lock are taken.
UR_Begin(r) ==
  /\ PuedeIniciar(r)
  /\ \E actor \in UserIds, t \in TicketIds, suc \in EntradasSucursalUR :
       LET sid == NumeroDe(suc)
       IN IF ~Visible(t)
          THEN Responde(r, "actualizar", t, 404, "no_encontrado", FALSE)
          ELSE IF tickets[t].estado \notin {"abierto", "pendiente"}
          THEN Responde(r, "actualizar", t, 400, "no_editable", FALSE)
          ELSE IF Usuarios[actor].rol = "operador_sucursal" /\ tickets[t].creador # actor
          THEN Responde(r, "actualizar", t, 403, "sin_permiso", FALSE)
          ELSE IF suc # "" /\ (sid = 0 \/ sid \notin Sucursales)
          THEN Responde(r, "actualizar", t, 400, "validacion", FALSE)
          ELSE /\ req' = [req EXCEPT ![r] =
                    [Idle EXCEPT !.op = "actualizar", !.pc = "ur_update",
                                 !.ticket = t, !.actor = actor,
                                 !.suc = IF suc = "" THEN 0 ELSE sid]]
               /\ UNCHANGED resp
  /\ UNCHANGED <<tickets, historial, adjuntos, notifs, lock, nextTicket, nextAdj,
                 logs, logOk, disparos>>
  /\ UNCHANGED varsAparte

\* updates.sucursal_id is set when the request carries one (0 = none).
FilaActualizada(fila, suc) == IF suc # 0 THEN [fila EXCEPT !.sucursal = suc] ELSE fila

\* TicketsModel.update(updates, {where: {id}}), which waits while a
\* transaction holds the row lock; then the audit log and res.json.
UR_Update(r) ==
  /\ req[r].pc = "ur_update"
  /\ lock[req[r].ticket] = 0
  /\ tickets' = [tickets EXCEPT ![req[r].ticket] = FilaActualizada(@, req[r].suc)]
  /\ registrarLogActividad({FilaLog("ACTUALIZAR", req[r].ticket, 0)})
  /\ Responde(r, "actualizar", req[r].ticket, 200, "ok", FALSE)
  /\ UNCHANGED <<historial, adjuntos, notifs, lock, nextTicket, nextAdj, disparos>>
  /\ UNCHANGED varsAparte

\* The update raises: catch block, 500.
UR_Fail(r) ==
  /\ req[r].pc = "ur_update"
  /\ Responde(r, "actualizar", req[r].ticket, 500, "error_servidor", FALSE)
  /\ UNCHANGED <<tickets, historial, adjuntos, notifs, lock, nextTicket, nextAdj,
                 logs, logOk, disparos>>
  /\ UNCHANGED varsAparte

\* What the ticket controller offers on a ticket once it exists.
NextEdicion ==
  \E r \in Reqs :
    \/ UR_Begin(r)
    \/ UR_Update(r)
    \/ UR_Fail(r)
    \/ CS_Begin(r)
    \/ CS_Hist(r)
    \/ CS_Update(r)
    \/ CS_Fail(r)
    \/ AF_Begin(r)
    \/ AF_Write(r)
    \/ AF_Commit(r)
    \/ AF_Post(r)
    \/ AF_Fail(r)

SpecEdicion == Init /\ [][NextEdicion]_vars

\* ------------------------------- observaciones_supervisor under ChangeState
\* comentario of the request body: absent, or one of two texts.
ComentariosDistintos == {"", "obs", "nota"}

\* CR_Ticket_CambiarEstado_CTS is called with any of those comments.
CS_BeginComentado(r) ==
  /\ PuedeIniciar(r)
  /\ \E actor \in UserIds, t \in TicketIds, entrada \in EntradasEstado,
        c \in ComentariosDistintos :
       CS_BeginDe(r, actor, t, entrada, c)

\* The change-state handler alone, over the tickets the store holds.
NextObservaciones ==
  \E r \in Reqs :
    \/ CS_BeginComentado(r)
    \/ CS_Hist(r)
    \/ CS_Update(r)
    \/ CS_Fail(r)

SpecObservaciones == Init /\ [][NextObservaciones]_vars

\* -------------------------------------------- the values of tickets.estado
\* nuevo_estado of the request body: the values above and one that names no
\* state.
EntradasEstadoLibres == EntradasEstado \cup {"archivado"}

\* CR_Ticket_CambiarEstado_CTS is called with any of those values.
CS_BeginLibre(r) ==
  /\ PuedeIniciar(r)
  /\ \E actor \in UserIds, t \in TicketIds, entrada \in EntradasEstadoLibres,
        c \in Comentarios :
       CS_BeginDe(r, actor, t, entrada, c)

\* Every operation that writes tickets.estado, as two requests.
NextEstados ==
  \E r \in {1, 2} :
    \/ CR_Begin(r)
    \/ CR_Fanout(r)
    \/ CR_Commit(r)
    \/ CR_Post(r)
    \/ CR_Fail(r)
    \/ CS_BeginLibre(r)
    \/ CS_Hist(r)
    \/ CS_Update(r)
    \/ CS_Fail(r)
    \/ AF_Begin(r)
    \/ AF_Write(r)
    \/ AF_Commit(r)
    \/ AF_Post(r)
    \/ AF_Fail(r)

SpecEstados == Init /\ [][NextEstados]_vars

\* ------------------------------------------------ ER_Ticket_CTS (Delete)
\* (variant: every role may delete)
PuedeEliminar_Todos(rol) == TRUE

\* rol === 'admin'
PuedeEliminar(rol) == rol = "admin"

\* The notificaciones table after the tickets row t is deleted: the handler
\* makes no call on it and the rows stay as they are.
NotifsTrasBorrar(t) == notifs

\* findByPk and the role test, for a request of user actor on ticket t.
ER_Ticket_BeginDe(r, actor, t) ==
  /\ PuedeIniciar(r)
  /\ IF ~Visible(t)
     THEN Responde(r, "eliminar", t, 404, "no_encontrado", FALSE)
     ELSE IF ~PuedeEliminar(Usuarios[actor].rol)
     THEN Responde(r, "eliminar", t, 403, "sin_permiso", FALSE)
     ELSE /\ req' = [req EXCEPT ![r] =
               [Idle EXCEPT !.op = "eliminar", !.pc = "et_destroy", !.ticket = t]]
          /\ UNCHANGED resp
  /\ UNCHANGED <<tickets, historial, adjuntos, notifs, lock, nextTicket, nextAdj,
                 logs, logOk, disparos>>
  /\ UNCHANGED varsAparte

ER_Ticket_Begin(r) ==
  /\ PuedeIniciar(r)
  /\ \E actor \in UserIds, t \in TicketIds : ER_Ticket_BeginDe(r, actor, t)

\* TicketsModel.destroy({where: {id}}), which waits while a transaction holds
\* the row; the rows of ticket_adjuntos and ticket_estados_historial go with
\* it (ON DELETE CASCADE).  Then the log and res.json.
ER_Ticket_Destroy(r) ==
  /\ req[r].pc = "et_destroy"
  /\ lock[req[r].ticket] = 0
  /\ tickets' = [tickets EXCEPT ![req[r].ticket] = IF @.tx = 0 THEN NoTicket ELSE @]
  /\ historial' = SelectSeq(historial, LAMBDA h: h.ticket # req[r].ticket)
  /\ adjuntos' = {a \in adjuntos : a.ticket # req[r].ticket}
  /\ notifs' = NotifsTrasBorrar(req[r].ticket)
  /\ registrarLogActividad({FilaLog("ELIMINAR", req[r].ticket, 0)})
  /\ Responde(r, "eliminar", req[r].ticket, 200, "ok", FALSE)
  /\ UNCHANGED <<lock, nextTicket, nextAdj, disparos>>
  /\ UNCHANGED varsAparte

\* The destroy raises: catch block, 500.
ER_Ticket_Fail(r) ==
  /\ req[r].pc = "et_destroy"
  /\ Responde(r, "eliminar", req[r].ticket, 500, "error_servidor", FALSE)
  /\ UNCHANGED <<tickets, historial, adjuntos, notifs, lock, nextTicket, nextAdj,
                 logs, logOk, disparos>>
  /\ UNCHANGED varsAparte

\* Ticket deletions next to uploads, on the tickets the store holds.
NextBorrado ==
  \E r \in Reqs :
    \/ ER_Ticket_Begin(r)
    \/ ER_Ticket_Destroy(r)
    \/ ER_Ticket_Fail(r)
    \/ AF_Begin(r)
    \/ AF_Write(r)
    \/ AF_Commit(r)
    \/ AF_Post(r)
    \/ AF_Fail(r)

SpecBorrado == Init /\ [][NextBorrado]_vars

\* One request, a create or the delete of a ticket, next to email deliveries
\* for the tickets the store holds or held.
NextCorreoBorrado ==
  \/ \E r \in {1} :
       \/ CR_Begin(r)
       \/ CR_Fanout(r)
       \/ CR_Commit(r)
       \/ CR_Post(r)
       \/ CR_Fail(r)
       \/ ER_Ticket_Begin(r)
       \/ ER_Ticket_Destroy(r)
       \/ ER_Ticket_Fail(r)
  \/ \E w \in Corridas :
       \/ W_Begin(w)
       \/ W_Cargar(w)
       \/ W_Destinatario(w)
       \/ W_Send(w)
       \/ W_Marca(w)

SpecCorreoBorrado == InitCorreo /\ [][NextCorreoBorrado]_vars

\* ------------------------------------------------- notificaciones controller
CANALES_VALIDOS == {"interno", "email", "whatsapp", "otro"}

\* Raw request values of the notification endpoints.
EntradasDestino == {"", "1", "2", "9", "x"}
EntradasCanal == {"", "email", "fax"}
EntradasTicket == {"", "1", "9"}

\* What identifies a notification row (its primary key).
ClaveNotif(n) == <<n.ticket, n.destino, n.canal, n.by>>

\* The row NotificacionesModel.create inserts in CR_Notificacion_CTS.
FilaNotifNueva(t, d, canal, r) ==
  [ticket |-> t, destino |-> d, canal |-> canal, estado_envio |-> "pendiente",
   fecha |-> 0, lectura |-> 0, by |-> r, tx |-> 0]

\* CR_Notificacion_CTS: validation, the lookups of the destination user and
\* of the ticket, the insert, the audit log, res.json.
CN_Crear(r) ==
  /\ PuedeIniciar(r)
  /\ \E actor \in UserIds, dest \in EntradasDestino, camposOk \in BOOLEAN,
        tk \in EntradasTicket, canal \in EntradasCanal :
       LET d == NumeroDe(dest)
           t == IF tk = "" THEN 0 ELSE NumeroDe(tk)
           canalFinal == IF canal # "" /\ canal \in CANALES_VALIDOS THEN canal ELSE "interno"
           invalido ==
             \/ dest = "" \/ ~camposOk \/ d = 0 \/ d \notin UserIds
             \/ tk # "" /\ ~Visible(t)
       IN IF invalido
          THEN /\ Responde(r, "crear_notif", 0, 400, "validacion", FALSE)
               /\ UNCHANGED <<notifs, logs, logOk>>
          ELSE /\ notifs' = notifs \cup {FilaNotifNueva(t, d, canalFinal, r)}
               /\ registrarLogActividad({FilaLog("CREAR_NOTIF", t, 0)})
               /\ Responde(r, "crear_notif", t, 200, "ok", FALSE)
  /\ UNCHANGED <<tickets, historial, adjuntos, lock, nextTicket, nextAdj, disparos>>
  /\ UNCHANGED varsAparte

\* The insert raises: catch block, 500.
CN_Fail(r) ==
  /\ PuedeIniciar(r)
  /\ Responde(r, "crear_notif", 0, 500, "error_servidor", FALSE)
  /\ UNCHANGED <<tickets, historial, adjuntos, notifs, lock, nextTicket, nextAdj,
                 logs, logOk, disparos>>
  /\ UNCHANGED varsAparte

\* UR_Notificacion_MarcarLeida_CTS up to the update: findByPk, 404, 403 when
\* the caller is not the destination, 200 when fecha_lectura is already set.
ML_Begin(r) ==
  /\ PuedeIniciar(r)
  /\ \E actor \in UserIds, k \in {<<>>} \cup {ClaveNotif(n) : n \in VisNotifs} :
       LET fila == {n \in VisNotifs : ClaveNotif(n) = k}
           notif == CHOOSE n \in fila : TRUE
       IN IF fila = {}
          THEN Responde(r, "marcar_leida", 0, 404, "no_encontrado", FALSE)
          ELSE IF notif.destino # actor
          THEN /\ req' = [req EXCEPT ![r] = Fin]
               /\ resp' = [NoResp EXCEPT !.op = "marcar_leida", !.status = 403,
                                         !.kind = "sin_permiso", !.actor = actor,
                                         !.filas = fila]
          ELSE IF notif.lectura # 0
          THEN /\ req' = [req EXCEPT ![r] = Fin]
               /\ resp' = [NoResp EXCEPT !.op = "marcar_leida", !.status = 200,
                                         !.kind = "ya_leida", !.actor = actor,
                                         !.filas = fila]
          ELSE /\ req' = [req EXCEPT ![r] =
                    [Idle EXCEPT !.op = "marcar_leida", !.pc = "ml_update",
                                 !.notif = k, !.actor = actor]]
               /\ UNCHANGED resp
  /\ UNCHANGED <<tickets, historial, adjuntos, notifs, lock, nextTicket, nextAdj,
                 logs, logOk, disparos>>
  /\ UNCHANGED varsAparte

\* NotificacionesModel.update({fecha_lectura: ahora}, {where: {id}}); the
\* timestamp a request takes is identified by the request.
FilaLeida(n, ahora) == [n EXCEPT !.lectura = ahora]

\* The update, the re-read, the audit log, res.json.
ML_Update(r) ==
  /\ req[r].pc = "ml_update"
  /\ notifs' = {IF n.tx = 0 /\ ClaveNotif(n) = req[r].notif THEN FilaLeida(n, r) ELSE n :
                  n \in notifs}
  /\ registrarLogActividad({FilaLog("MARCAR_LEIDA", req[r].notif[1], 0)})
  /\ req' = [req EXCEPT ![r] = Fin]
  /\ resp' = [NoResp EXCEPT !.op = "marcar_leida", !.status = 200, !.kind = "ok",
                            !.actor = req[r].actor,
                            !.filas = {n \in notifs' : n.tx = 0 /\ ClaveNotif(n) = req[r].notif}]
  /\ UNCHANGED <<tickets, historial, adjuntos, lock, nextTicket, nextAdj, disparos>>
  /\ UNCHANGED varsAparte

\* The update raises: catch block, 500.
ML_Fail(r) ==
  /\ req[r].pc = "ml_update"
  /\ Responde(r, "marcar_leida", 0, 500, "error_servidor", FALSE)
  /\ UNCHANGED <<tickets, historial, adjuntos, notifs, lock, nextTicket, nextAdj,
                 logs, logOk, disparos>>
  /\ UNCHANGED varsAparte

\* (variant: the operator is treated like a supervisor)
DestinosWhere_SinRol(rol, ctx, filtro) ==
  IF filtro # ""
  THEN IF NumeroDe(filtro) # 0 THEN {NumeroDe(filtro)} ELSE UserIds
  ELSE {ctx}

\* The usuario_destino_id condition of OBRS_Notificaciones_CTS, as the set
\* of destinations it admits (no condition admits every one).
DestinosWhere(rol, ctx, filtro) ==
  IF rol = "operador_sucursal" THEN {ctx}
  ELSE IF filtro # ""
       THEN IF NumeroDe(filtro) # 0 THEN {NumeroDe(filtro)} ELSE UserIds
       ELSE {ctx}

\* OBRS_Notificaciones_CTS: the where clause and findAndCountAll.
LN_Listar(r) ==
  /\ PuedeIniciar(r)
  /\ \E actor \in UserIds, filtro \in EntradasDestino, canal \in EntradasCanal,
        soloNoLeidas \in BOOLEAN :
       /\ req' = [req EXCEPT ![r] = Fin]
       /\ resp' = [NoResp EXCEPT
            !.op = "listar", !.status = 200, !.kind = "ok", !.actor = actor,
            !.pedido = filtro,
            !.filas = {n \in VisNotifs :
                         /\ n.destino \in DestinosWhere(Usuarios[actor].rol, actor, filtro)
                         /\ (canal \in CANALES_VALIDOS) => n.canal = canal
                         /\ soloNoLeidas => n.lectura = 0}]
  /\ UNCHANGED <<tickets, historial, adjuntos, notifs, lock, nextTicket, nextAdj,
                 logs, logOk, disparos>>
  /\ UNCHANGED varsAparte

\* The notification endpoints on the store the ticket handlers left.
NextNotificaciones ==
  \E r \in Reqs :
    \/ CN_Crear(r)
    \/ CN_Fail(r)
    \/ ML_Begin(r)
    \/ ML_Update(r)
    \/ ML_Fail(r)
    \/ LN_Listar(r)

SpecNotificaciones == Init /\ [][NextNotificaciones]_vars

\* ------------------------------------------------- logs_actividad (audit log)
\* The logs_actividad table stops or resumes accepting writes.
L_Almacen ==
  /\ logOk' = ~logOk
  /\ UNCHANGED <<tickets, historial, adjuntos, notifs, lock, nextTicket, nextAdj,
                 req, resp, logs, disparos>>
  /\ UNCHANGED varsAparte

\* registrarLogActividad is called on its own (it is exported): with or
\* without accion.
L_Registrar ==
  /\ \E accion \in {"", "LOGIN"} : registrarLogActividad({FilaLog(accion, 0, 0)})
  /\ UNCHANGED <<tickets, historial, adjuntos, notifs, lock, nextTicket, nextAdj,
                 req, resp, disparos>>
  /\ UNCHANGED varsAparte

\* One request of the handlers that write the audit log, over a log store
\* that may fail.
NextBitacora ==
  \/ L_Almacen
  \/ L_Registrar
  \/ \E r \in {1} :
       \/ CR_Begin(r)
       \/ CR_Fanout(r)
       \/ CR_Commit(r)
       \/ CR_Post(r)
       \/ CS_Begin(r)
       \/ CS_Hist(r)
       \/ CS_Update(r)
       \/ AF_Begin(r)
       \/ AF_Write(r)
       \/ AF_Commit(r)
       \/ AF_Post(r)

SpecBitacora == Init /\ [][NextBitacora]_vars

\* ================================================================ properties
AdjDe(t) == {a \in adjuntos : a.tx = 0 /\ a.ticket = t}
NotifsDe(t) == {n \in notifs : n.tx = 0 /\ n.ticket = t}

\* History entries the attachment gate wrote for ticket t.
Activaciones(t) ==
  {i \in DOMAIN historial :
     /\ historial[i].tx = 0 /\ historial[i].ticket = t
     /\ historial[i].anterior = "pendiente_adjuntos"
     /\ historial[i].nuevo = "pendiente"
     /\ historial[i].coment = "Adjuntos cargados"}

\* Fan-out invocations whose rows are committed for ticket t.
FanoutsDe(t) == {n.by : n \in NotifsDe(t)}

\* A cambiar-estado request has written a history entry for ticket t.
IntervinoCambio(t) ==
  \E i \in DOMAIN historial :
    historial[i].ticket = t /\ historial[i].coment \in Comentarios

\* Ticket t was created in pendiente_adjuntos.
NacioConGate(t) ==
  Visible(t) /\ HistDe(t) # <<>> /\ HistDe(t)[1].nuevo = "pendiente_adjuntos"

\* C1: however many uploads run against a ticket that starts in
\* pendiente_adjuntos, and however they interleave, at most one of them writes
\* the pendiente_adjuntos -> pendiente history entry and at most one fan-out
\* is committed for the ticket; once an upload has committed (and no
\* cambiar-estado request touched the ticket) there is exactly one of each and
\* the ticket is pendiente.
C1_UnaSolaActivacion ==
  \A t \in TicketIds :
    /\ Cardinality(Activaciones(t)) <= 1
    /\ Cardinality(FanoutsDe(t)) <= 1
    /\ (NacioConGate(t) /\ AdjDe(t) # {} /\ ~IntervinoCambio(t))
         => /\ Cardinality(Activaciones(t)) = 1
            /\ Cardinality(FanoutsDe(t)) = 1
            /\ tickets[t].estado = "pendiente"

\* Two uploads have committed on a ticket created in pendiente_adjuntos.
C1_Witness ==
  \E t \in TicketIds :
    /\ NacioConGate(t)
    /\ Cardinality(AdjDe(t)) >= 2
    /\ Cardinality(Activaciones(t)) = 1

\* No request that reads or writes ticket t is under way.
EnReposo(t) == \A r \in Reqs : req[r].pc \in {"idle", "done"} \/ req[r].ticket # t

\* Replaying h from its first entry: every entry starts where the previous one
\* ended, none is a self-transition and none leaves cerrado.
CadenaValida(h) ==
  \A i \in 1..Len(h) :
    /\ h[i].anterior # h[i].nuevo
    /\ h[i].anterior # "cerrado"
    /\ i > 1 => h[i].anterior = h[i - 1].nuevo

\* C2: for every ticket, once the requests on it have ended, replaying its
\* history entries in order is a valid chain that ends in the ticket's current
\* state, whatever the interleaving of the requests was.
C2_HistorialReconstruye ==
  \A t \in TicketIds :
    (Visible(t) /\ EnReposo(t) /\ HistDe(t) # <<>>)
      => /\ CadenaValida(HistDe(t))
         /\ HistDe(t)[Len(HistDe(t))].nuevo = tickets[t].estado

\* C3: a ticket that is cerrado stays cerrado in every step, including the
\* steps of cambiar-estado requests that race one another.
C3_CerradoTerminal ==
  [][\A t \in TicketIds :
       (Visible(t) /\ tickets[t].estado = "cerrado")
         => tickets'[t].estado = "cerrado"]_vars

\* C4: a ticket has a fecha_cierre exactly when its state is cerrado.
C4_FechaCierreSiiCerrado ==
  \A t \in TicketIds :
    Visible(t) => (tickets[t].cierre <=> tickets[t].estado = "cerrado")

\* C5: when the fan-out raises inside Create, the handler still commits the
\* ticket and answers 200.
C5_FanoutNoRompeCreate ==
  [][\A r \in Reqs :
       (req[r].pc = "cr_fanout" /\ req'[r].pc = "done")
         => /\ resp'.status = 200
            /\ tickets'[req[r].ticket].existe
            /\ tickets'[req[r].ticket].tx = 0]_vars

\* C7: a cambiar-estado request that answers with an error has left no
\* history entry, in particular when the ticket update raises after the
\* history insert.
C7_CambioFallidoSinEfecto ==
  [][\A r \in Reqs :
       (req[r].pc \in {"cs_hist", "cs_update"} /\ req'[r].pc = "done"
          /\ resp'.status # 200)
         => ~\E i \in DOMAIN historial' : historial'[i].by = r]_vars

\* The operation of the handler in slot r that takes the step.
OpDelPaso(r) ==
  IF req[r].op # "idle" THEN req[r].op
  ELSE IF req'[r].op = "fin" THEN resp'.op ELSE req'[r].op

\* Slot r takes the step.
DaPaso(r) == req'[r] # req[r]

\* Slot r answers in the step.
Termina(r) == req[r].pc # "done" /\ req'[r].pc = "done"

PrimeraEntrada(t) ==
  [ticket |-> t, anterior |-> "null", nuevo |-> "pendiente",
   coment |-> "Ticket creado"]

\* C6: until a Create commits nothing of its ticket is visible; the commit
\* step makes visible, together, the ticket in pendiente,
\* exactly one history entry (null -> pendiente) and the fan-out rows (an
\* interno/enviado and an email/pendiente row per recipient).
C6_CreateVisibleJunto ==
  [][\A r \in Reqs, t \in TicketIds :
       /\ (req[r].pc \in {"cr_fanout", "cr_commit"} /\ req[r].ticket = t)
            => (~Visible(t) /\ HistDe(t) = <<>> /\ NotifsDe(t) = {})
       /\ (Termina(r) /\ resp'.op = "create" /\ resp'.status = 200)
            => req[r].pc = "cr_post"
       /\ (req[r].pc = "cr_commit" /\ req'[r].pc = "cr_post" /\ req[r].ticket = t)
            => /\ Visible(t)'
               /\ tickets'[t].estado = "pendiente"
               /\ Len(HistDe(t)') = 1
               /\ \A k \in {"ticket", "anterior", "nuevo", "coment"} :
                    HistDe(t)'[1][k] = PrimeraEntrada(t)[k]
               /\ NotifsDe(t)' =
                    {[n EXCEPT !.tx = 0] : n \in FilasFanout(t, tickets'[t].creador, r)}]_vars

\* A Create has answered 200 and its fan-out rows are visible.
C6_Witness ==
  /\ resp.op = "create" /\ resp.status = 200
  /\ Visible(resp.ticket)
  /\ NotifsDe(resp.ticket) # {}

\* No row, pending update or lock of transaction r is left.
SinRastro(r) ==
  /\ \A t \in TicketIds : tickets[t].tx # r /\ lock[t] # r
  /\ \A i \in DOMAIN historial : historial[i].tx # r
  /\ \A n \in notifs : n.tx # r
  /\ \A a \in adjuntos : a.tx # r

\* C8: every step of a Create or AttachFiles handler other than its commit
\* leaves what readers see of tickets, history,
\* attachments (primary flags included) and notifications unchanged; when the
\* handler answers with an error, nothing of its transaction is left and the
\* answer carries the error status.
C8_FalloSinEfecto ==
  [][\A r \in Reqs :
       (DaPaso(r) /\ OpDelPaso(r) \in {"create", "adjuntar"})
         => /\ ~(req[r].pc \in {"cr_commit", "af_commit"}
                   /\ req'[r].pc \in {"cr_post", "af_post"}) => VisibleDB' = VisibleDB
            /\ (Termina(r) /\ resp'.status # 200)
                 => (SinRastro(r)' /\ resp'.status >= 400)]_vars

\* A Create failed after its inserts and an AttachFiles failed after writing
\* its attachment rows; neither left a row.
C8_Witness ==
  /\ resp.op = "adjuntar" /\ resp.status = 500
  /\ nextAdj > 1 /\ adjuntos = {}
  /\ nextTicket > 1 /\ ~tickets[nextTicket - 1].existe

\* Message classes of the 400 answers of cambiar-estado.
ConflictoDeEstado == {"sin_cambio", "ya_cerrado"}

\* Slot r answers, in this step, a cambiar-estado request of a supervisor or
\* admin on an existing ticket.
RespondeCambio(r) ==
  /\ req[r].op = "idle" /\ req'[r].pc = "done"
  /\ resp'.op = "cambiar" /\ resp'.puede
  /\ Visible(resp'.ticket)

SinEfecto == UNCHANGED <<tickets, historial, adjuntos, notifs>>

C10_Original ==
  [][\A r \in Reqs :
       (RespondeCambio(r) /\ tickets[resp'.ticket].estado = "cerrado")
         => (resp'.kind \in ConflictoDeEstado /\ SinEfecto)]_vars

\* C10 (amended): such a request never proceeds to a write; it is answered
\* 400 and changes nothing; the answer is a state conflict when nuevo_estado
\* is one of ESTADOS_VALIDOS and the invalid-state validation error otherwise.
C10_CerradoRechazaCambio ==
  [][\A r \in Reqs :
       /\ (req[r].op = "idle" /\ req'[r].pc = "cs_hist")
            => tickets[req'[r].ticket].estado # "cerrado"
       /\ (RespondeCambio(r) /\ tickets[resp'.ticket].estado = "cerrado")
            => /\ resp'.status = 400
               /\ SinEfecto
               /\ resp'.kind =
                    IF resp'.pedido \notin ESTADOS_VALIDOS THEN "estado_invalido"
                    ELSE IF resp'.pedido = "cerrado" THEN "sin_cambio"
                    ELSE "ya_cerrado"]_vars

\* A supervisor or admin asked to reopen a cerrado ticket and was refused.
C10_Witness ==
  /\ resp.op = "cambiar" /\ resp.puede /\ resp.kind = "ya_cerrado"
  /\ Visible(resp.ticket)
  /\ tickets[resp.ticket].estado = "cerrado"

\* The transaction of the Create or AttachFiles handler in slot r has
\* committed: nothing of it is pending and what it wrote is visible.
Comprometida(r) ==
  /\ req[r].pc \in {"cr_post", "af_post"}
  /\ SinRastro(r)
  /\ Visible(req[r].ticket)
  /\ req[r].nuevos \subseteq {a.id : a \in AdjDe(req[r].ticket)}
  /\ req[r].finalizo => Activaciones(req[r].ticket) # {}

\* C11: a step of a Create or AttachFiles handler writes an audit-log row or
\* makes the detached email-delivery call only when the handler's transaction
\* has committed; steps before the commit and steps that roll back write
\* neither, and every audit row and delivery call refers to a visible ticket.
C11_EfectosTrasCommit ==
  [][/\ \A r \in Reqs :
          (DaPaso(r) /\ OpDelPaso(r) \in {"create", "adjuntar"}
             /\ (logs' # logs \/ disparos' # disparos))
            => Comprometida(r)
     /\ \A l \in logs' : Visible(l.ticket)'
     /\ \A t \in disparos' : Visible(t)']_vars

\* One handler has committed, logged and triggered the delivery; a Create
\* that came after it was rolled back and left neither log nor trigger.
C11_Witness ==
  /\ resp.op = "create" /\ resp.status = 500 /\ resp.ticket # 0
  /\ logs # {} /\ disparos # {}
  /\ \A l \in logs : l.ticket # resp.ticket
  /\ resp.ticket \notin disparos

\* Rows of the fan-out made last that go to user u on channel c in state e.
FilasPara(u, c, e) ==
  {k \in DOMAIN consulta.filas :
     /\ consulta.filas[k].destino = u
     /\ consulta.filas[k].canal = c
     /\ consulta.filas[k].estado_envio = e}

\* Every row of the fan-out made last that goes to user u.
FilasDe(u) == {k \in DOMAIN consulta.filas : consulta.filas[k].destino = u}

\* User u got exactly one interno/enviado row, exactly one email/pendiente
\* row and nothing else.
UnaDeCadaCanal(u) ==
  /\ Cardinality(FilasPara(u, "interno", "enviado")) = 1
  /\ Cardinality(FilasPara(u, "email", "pendiente")) = 1
  /\ Cardinality(FilasDe(u)) = 2

\* Active supervisors bound to branch b.
SupervisoresDe(b) ==
  {u \in DOMAIN poblacion : poblacion[u].rol = "supervisor" /\ poblacion[u].activo
                              /\ poblacion[u].sucursal = b}

\* C12: when the ticket's branch has at least one active supervisor, a
\* fan-out gives every such supervisor that has an email exactly one
\* interno/enviado and one email/pendiente row, and gives the creator, if it
\* has an email, exactly one of each as well, also when the creator is one of
\* those supervisors.
C12_FanoutCompleto ==
  (consulta.tipo = "fanout" /\ SupervisoresDe(consulta.sucursal) # {})
    => /\ \A u \in SupervisoresDe(consulta.sucursal) :
            poblacion[u].email => UnaDeCadaCanal(u)
       /\ poblacion[consulta.creador].email => UnaDeCadaCanal(consulta.creador)

\* A fan-out for a ticket whose creator is an active supervisor of the
\* ticket's branch, with another such supervisor next to it; both have email.
C12_Witness ==
  /\ consulta.tipo = "fanout"
  /\ consulta.creador \in SupervisoresDe(consulta.sucursal)
  /\ \E u \in SupervisoresDe(consulta.sucursal) :
       u # consulta.creador /\ poblacion[u].email
  /\ poblacion[consulta.creador].email
  /\ Len(consulta.filas) = 4

\* C13: the users a fan-out notifies are exactly the creator together with
\* the first non-empty supervision tier of the ticket's branch, restricted to
\* users with an email.
C13_FanoutUsaTiers ==
  consulta.tipo = "fanout"
    => {consulta.filas[k].destino : k \in DOMAIN consulta.filas}
         = {u \in {consulta.creador} \cup
                   obtenerDestinatariosSupervisionPorSucursal(poblacion, consulta.sucursal) :
              poblacion[u].email}

\* The three tiers of branch b over the current table.
Tier1(b) == SupervisoresDe(b)
Tier2 == SupervisoresDe(0)
Tier3 == {u \in DOMAIN poblacion : poblacion[u].rol = "admin" /\ poblacion[u].activo}

\* C14: the supervision query returns the active supervisors of the branch
\* when there are any, otherwise the active supervisors without branch when
\* there are any, otherwise the active admins; it returns nobody only when
\* the three tiers are empty, and never returns an inactive user.
C14_TiersEnOrden ==
  consulta.tipo = "supervision"
    => LET b == consulta.sucursal
           res == consulta.usuarios
       IN /\ \A u \in res : poblacion[u].activo
          /\ Tier1(b) # {} => res = Tier1(b)
          /\ (Tier1(b) = {} /\ Tier2 # {}) => res = Tier2
          /\ (Tier1(b) = {} /\ Tier2 = {}) => res = Tier3
          /\ res = {} => (Tier1(b) = {} /\ Tier2 = {} /\ Tier3 = {})

\* The query fell through to the second tier: the branch has no active
\* supervisor (an inactive one at most) and a global supervisor answers.
C14_Witness ==
  /\ consulta.tipo = "supervision"
  /\ Tier1(consulta.sucursal) = {}
  /\ Tier2 # {}
  /\ consulta.usuarios = Tier2
  /\ \E u \in DOMAIN poblacion : ~poblacion[u].activo

\* Committed primary attachments of ticket t.
Principales(t) == {a \in AdjDe(t) : a.principal}

EntradaGate(t) ==
  [ticket |-> t, anterior |-> "pendiente_adjuntos", nuevo |-> "pendiente",
   coment |-> "Adjuntos cargados"]

\* Sequence h without its i-th element.
SinElemento(h, i) ==
  [k \in 1..(Len(h) - 1) |-> IF k < i THEN h[k] ELSE h[k + 1]]

\* C16: the commit step of an upload that read its ticket in
\* pendiente_adjuntos makes visible, in that one step, the ticket in
\* pendiente, exactly one new history entry (pendiente_adjuntos -> pendiente),
\* the new attachments and the fan-out rows, none of which was visible before;
\* when such an upload ends in an error instead, the ticket's state, history,
\* attachments and notifications are as they were and nothing of it is left.
C16_GateAtomico ==
  [][\A r \in Reqs, t \in TicketIds :
       (req[r].op = "adjuntar" /\ req[r].ticket = t
          /\ req[r].entrada = "pendiente_adjuntos")
         => /\ (req[r].pc = "af_commit" /\ req'[r].pc = "af_post")
                 => /\ tickets[t].estado = "pendiente_adjuntos"
                    /\ tickets'[t].estado = "pendiente"
                    /\ \E i \in DOMAIN HistDe(t)' :
                         /\ SinElemento(HistDe(t)', i) = HistDe(t)
                         /\ \A k \in {"ticket", "anterior", "nuevo", "coment"} :
                              HistDe(t)'[i][k] = EntradaGate(t)[k]
                    /\ {a.id : a \in AdjDe(t)'} \ {a.id : a \in AdjDe(t)}
                         = req[r].nuevos
                    /\ req[r].nuevos # {}
                    /\ NotifsDe(t) = {}
                    /\ NotifsDe(t)' =
                         {[n EXCEPT !.tx = 0] : n \in FilasFanout(t, tickets[t].creador, r)}
                    /\ req[r].finalizo
            /\ (Termina(r) /\ resp'.status # 200)
                 => /\ tickets'[t] = tickets[t]
                    /\ HistDe(t)' = HistDe(t)
                    /\ AdjDe(t)' = AdjDe(t)
                    /\ NotifsDe(t)' = NotifsDe(t)
                    /\ SinRastro(r)'
            /\ (Termina(r) /\ resp'.status = 200)
                 => (resp'.finalizo /\ req[r].pc = "af_post")]_vars

\* An upload on a ticket read in pendiente_adjuntos has committed and
\* answered that it enabled the ticket.
C16_Witness ==
  /\ resp.op = "adjuntar" /\ resp.status = 200 /\ resp.finalizo
  /\ tickets[resp.ticket].estado = "pendiente"
  /\ NotifsDe(resp.ticket) # {}
  /\ AdjDe(resp.ticket) # {}

\* C17: the commit step of a create request (a create carries no attachment)
\* exposes its ticket in pendiente_adjuntos, and no notification of the ticket
\* is visible while the ticket has no attachment and the attachment gate has
\* not written its history entry.
C17_CreadoEsperaAdjuntos ==
  [][\A r \in Reqs, t \in TicketIds :
       (req[r].op = "create" /\ req[r].ticket = t
          /\ req[r].pc = "cr_commit" /\ req'[r].pc = "cr_post")
         => /\ tickets'[t].estado = "pendiente_adjuntos"
            /\ (AdjDe(t)' = {} /\ Activaciones(t)' = {}) => NotifsDe(t)' = {}]_vars

\* The committed email notification rows of ticket t for user d.
EmailDe(t, d) ==
  {n \in notifs : n.tx = 0 /\ n.ticket = t /\ n.destino = d /\ n.canal = "email"}

\* Delivery call w takes a step.
PasoCorrida(w) == corridas'[w] # corridas[w]

\* C18: when the send of a delivery call was refused by the transport, the
\* call's next step leaves that notification in error, when the send
\* succeeded it leaves it in enviado, and either way the call goes on with
\* the next notification it loaded (it ends only after the last one); no
\* step of a delivery call changes the answer the triggering request has
\* given or any request handler, and the step that triggers a delivery
\* answers the create with 200.
C18_FalloDeTransporteAislado ==
  [][/\ \A w \in Corridas, t \in TicketIds, d \in UserIds :
          (/\ PasoCorrida(w) /\ corridas[w].pc = "w_marca"
           /\ corridas[w].ticket = t
           /\ corridas[w].lista[corridas[w].pos] = d)
            => /\ EmailDe(t, d) # {}
               /\ \A n \in EmailDe(t, d)' :
                    /\ corridas[w].envio = "falla" => n.estado_envio = "error"
                    /\ corridas[w].envio = "ok" => n.estado_envio = "enviado"
                    /\ n.fecha # 0
               /\ \A e \in UserIds \ {d} : EmailDe(t, e)' = EmailDe(t, e)
               /\ corridas'[w].lista = corridas[w].lista
               /\ IF corridas[w].pos < Len(corridas[w].lista)
                  THEN /\ corridas'[w].pc = "w_dest"
                       /\ corridas'[w].pos = corridas[w].pos + 1
                  ELSE corridas'[w].pc = "done"
     /\ (\E w \in Corridas : PasoCorrida(w)) => (resp' = resp /\ req' = req)
     /\ disparos' # disparos
          => (resp'.op = "create" /\ resp'.status = 200
              /\ resp'.ticket \in disparos' \ disparos)]_vars

\* A create answered 200 and triggered a delivery for its ticket; a call for
\* that ticket loaded two pending notifications and has ended; the transport
\* refused one send, so that notification is in error although its user has
\* an address, and the other one is in enviado.
C18_Witness ==
  \E w \in Corridas, t \in TicketIds, d \in UserIds, e \in UserIds :
    /\ resp.op = "create" /\ resp.status = 200 /\ resp.ticket = t /\ t \in disparos
    /\ corridas[w].pc = "done" /\ corridas[w].ticket = t
    /\ Len(corridas[w].lista) = 2
    /\ poblacion[d].email /\ poblacion[e].email
    /\ EmailDe(t, d) # {} /\ \A n \in EmailDe(t, d) : n.estado_envio = "error"
    /\ EmailDe(t, e) # {} /\ \A n \in EmailDe(t, e) : n.estado_envio = "enviado"

\* The same notification row before and after a step.
MismaNotif(n, m) ==
  /\ n.ticket = m.ticket /\ n.destino = m.destino
  /\ n.canal = m.canal /\ n.by = m.by

Terminada(w) == corridas[w].pc \in {"done", "rechazada"}

Avance(c) ==
  CASE c.pc = "idle" -> 0
    [] c.pc = "w_cargar" -> 1
    [] c.pc = "w_dest" -> 3 * c.pos
    [] c.pc = "w_send" -> 3 * c.pos + 1
    [] c.pc = "w_marca" -> 3 * c.pos + 2
    [] OTHER -> 3 * (Cardinality(UserIds) + 1)

C21_BitacoraNoLanza ==
  [][/\ ENABLED L_Registrar
     /\ \A r \in Reqs :
          /\ req[r].pc = "cr_post" => ENABLED CR_Post(r)
          /\ req[r].pc = "af_post" => ENABLED AF_Post(r)
          /\ (req[r].pc = "cs_update" /\ lock[req[r].ticket] = 0)
               => ENABLED CS_Update(r)
          /\ (req[r].pc \in {"cr_post", "af_post"} /\ DaPaso(r))
               => /\ resp'.status = 200 /\ resp'.ticket = req[r].ticket
                  /\ VisibleDB' = VisibleDB
          /\ (req[r].pc = "cs_update" /\ DaPaso(r))
               => /\ resp'.status = 200
                  /\ tickets'[req[r].ticket].estado = req[r].nuevo
     /\ ~logOk => logs' = logs
     /\ \A l \in logs' \ logs : l.accion # ""]_vars

\* The log store refused the write of a committed create: the ticket is
\* visible, the create was answered 200, and there is no audit row.
C21_Witness ==
  /\ ~logOk
  /\ resp.op = "create" /\ resp.status = 200
  /\ Visible(resp.ticket) /\ resp.ticket \in disparos
  /\ \A l \in logs : l.ticket # resp.ticket

\* C22: every notification of the internal channel, whether the fan-out or
\* the notification-creation endpoint wrote it, is in estado_envio enviado
\* from its insert on; none is ever in pendiente.
C22_InternoSiempreEnviado ==
  \A n \in notifs : n.canal = "interno" => n.estado_envio = "enviado"

\* C23: the fecha_lectura of a notification is written only by a request of
\* its destination user, a marcar-leida request of any other user is answered
\* 403 and leaves the notifications as they were, and however marcar-leida
\* requests of the destination user interleave, a fecha_lectura that is set
\* is never written again.
C23_LecturaUnaSolaVez ==
  [][/\ \A n \in notifs : \A m \in notifs' :
          (ClaveNotif(n) = ClaveNotif(m) /\ m.lectura # n.lectura)
            => /\ n.lectura = 0
               /\ \E r \in Reqs : DaPaso(r) /\ req[r].actor = n.destino
     /\ \A r \in Reqs :
          (/\ DaPaso(r) /\ req'[r].pc = "done" /\ resp'.op = "marcar_leida"
           /\ resp'.status = 200 /\ resp'.kind = "ya_leida")
            => notifs' = notifs
     /\ (resp' # resp /\ resp'.op = "marcar_leida" /\ resp'.status = 403)
          => /\ notifs' = notifs
             /\ \A n \in resp'.filas : n.destino # resp'.actor]_vars

\* C24: no step of an update, cambiar-estado or upload request changes the
\* usuario_creador_id or the sucursal_id of a ticket that exists.
C24_CreadorYSucursalFijos ==
  [][\A t \in TicketIds :
       (Visible(t) /\ Visible(t)')
         => /\ tickets'[t].creador = tickets[t].creador
            /\ tickets'[t].sucursal = tickets[t].sucursal]_vars

C26_CambioSoloSupervision ==
  [][\A r \in Reqs :
      (req[r].op = "idle" /\ DaPaso(r) /\ OpDelPaso(r) = "cambiar") =>
       \A t \in TicketIds : (Visible(t) /\ t \in {req'[r].ticket, resp'.ticket}) =>
        LET aceptado == req'[r].pc = "cs_hist"
            e == IF aceptado THEN req'[r].nuevo ELSE resp'.pedido
            c == IF aceptado THEN req'[r].coment ELSE ""
        IN \A actor \in UserIds, entrada \in EntradasEstado :
             (/\ Normalizar(entrada) = e
              /\ e \in ESTADOS_VALIDOS
              /\ Usuarios[actor].rol \notin {"supervisor", "admin"}
              /\ CS_BeginDe(r, actor, t, entrada, c))
               => /\ req'[r].pc = "done"
                  /\ resp'.op = "cambiar" /\ resp'.status = 403
                  /\ resp'.kind = "sin_permiso"
                  /\ tickets' = tickets /\ historial' = historial
                  /\ adjuntos' = adjuntos /\ notifs' = notifs
                  /\ logs' = logs /\ disparos' = disparos]_vars

\* A cambiar-estado request to cerrado by a user without the role was
\* answered 403 on a ticket that somebody else had moved on; the ticket is
\* as that change left it.
C26_Witness ==
  /\ resp.op = "cambiar" /\ resp.status = 403 /\ resp.kind = "sin_permiso"
  /\ resp.pedido = "cerrado" /\ ~resp.puede
  /\ Visible(resp.ticket) /\ tickets[resp.ticket].estado = "autorizado"
  /\ Len(HistDe(resp.ticket)) = 2

\* C27: a create request without fecha_ticket or asunto, with a sucursal_id
\* that is not a number or names no branch, or without sucursal_id from a
\* user without branch, is answered 400 and nothing of it exists afterwards:
\* no ticket row (not even inside a transaction), no history entry, no
\* notification, no log row, no delivery trigger, and no ticket id is used.
C27_CreateInvalidoSinEfecto ==
  [][\A r \in Reqs :
      (req[r].op = "idle" /\ DaPaso(r) /\ OpDelPaso(r) = "create") =>
       \/ /\ req'[r].pc = "done"
          /\ resp'.op = "create" /\ resp'.status = 400
          /\ resp'.kind = "validacion"
          /\ tickets' = tickets /\ historial' = historial
          /\ notifs' = notifs /\ adjuntos' = adjuntos
          /\ nextTicket' = nextTicket
          /\ logs' = logs /\ disparos' = disparos
       \/ \A actor \in UserIds, camposOk \in BOOLEAN, suc \in EntradasSucursal :
            (\/ ~camposOk
             \/ suc \in {"9", "x"}
             \/ suc = "" /\ Usuarios[actor].sucursal = 0)
              => \A falla \in BOOLEAN : ~CR_BeginDe(r, actor, camposOk, suc, falla)]_vars

\* A create request was answered 400 while an earlier create had committed
\* its ticket: that ticket, its history entry and its log row are all there
\* is.
C27_Witness ==
  /\ resp.op = "create" /\ resp.status = 400 /\ resp.kind = "validacion"
  /\ nextTicket = 2 /\ Visible(1)
  /\ Len(historial) = 1
  /\ \A f \in logs : f.ticket = 1
  /\ \A x \in notifs : x.ticket = 1

\* C28: a fan-out writes no row, interno or email, for a user without email
\* address, be it the creator or a supervisor.
C28_SinEmailSinFilas ==
  consulta.tipo = "fanout"
    => \A k \in DOMAIN consulta.filas :
         /\ consulta.filas[k].canal \in {"interno", "email"}
         /\ poblacion[consulta.filas[k].destino].email

\* A fan-out for a ticket whose creator has no email while an active
\* supervisor has one: the rows written are the two of that supervisor.
C28_Witness ==
  /\ consulta.tipo = "fanout"
  /\ ~poblacion[consulta.creador].email
  /\ Len(consulta.filas) = 2
  /\ consulta.filas[1].destino # consulta.creador
  /\ poblacion[consulta.filas[1].destino].rol = "supervisor"

\* a is an initial segment of b.
EsPrefijo(a, b) == Len(a) <= Len(b) /\ SubSeq(b, 1, Len(a)) = a

\* C29: the remarks of a ticket only grow: every step leaves the remarks it
\* found as an initial segment of the new ones, also when change-state
\* requests on the ticket overlap, and the answered change into autorizado,
\* rechazado or cerrado that carried a comment left it in the remarks.
C29_ObservacionesSoloCrecen ==
  [][\A t \in TicketIds :
      Visible(t) =>
        /\ EsPrefijo(tickets[t].obs, tickets'[t].obs)
        /\ \A r \in Reqs :
             (/\ req[r].pc = "cs_update" /\ req[r].ticket = t
              /\ resp'.status = 200 /\ DaPaso(r)
              /\ req[r].coment # ""
              /\ req[r].nuevo \in {"autorizado", "rechazado", "cerrado"})
               => \E i \in DOMAIN tickets'[t].obs :
                    tickets'[t].obs[i] = req[r].coment]_vars

\* C30 (as stated): a listing returns only notifications whose destination
\* is the calling user, whatever the caller's role and the query filters.
C30_ListaSoloPropias ==
  resp.op = "listar" => \A n \in resp.filas : n.destino = resp.actor

\* C30 (amended): a listing asked by an operator, with any filters, or asked
\* by a supervisor or admin without the usuario_destino_id filter, returns
\* only notifications whose destination is the calling user; a supervisor or
\* admin that gives a numeric usuario_destino_id gets only notifications of
\* that user.
C30_ListaPropiasSalvoFiltro ==
  resp.op = "listar" =>
    /\ (Usuarios[resp.actor].rol = "operador_sucursal" \/ resp.pedido = "")
         => \A n \in resp.filas : n.destino = resp.actor
    /\ (Usuarios[resp.actor].rol # "operador_sucursal" /\ NumeroDe(resp.pedido) # 0)
         => \A n \in resp.filas : n.destino = NumeroDe(resp.pedido)

\* An operator listed with the usuario_destino_id of another user, who has
\* notifications, and got its own notifications.
C30_Witness ==
  /\ resp.op = "listar"
  /\ Usuarios[resp.actor].rol = "operador_sucursal"
  /\ NumeroDe(resp.pedido) \in UserIds \ {resp.actor}
  /\ \E n \in VisNotifs : n.destino = NumeroDe(resp.pedido)
  /\ resp.filas # {}
  /\ \A n \in resp.filas : n.destino = resp.actor

\* C31: a delete request of a user who is not admin, for a ticket that
\* exists, is answered 403 and leaves tickets, history, attachments and
\* notifications as they were; the delete of an admin takes the ticket away;
\* and no step of a delete request writes a notification or triggers the
\* email delivery.
C31_BorradoSoloAdmin ==
  [][\A r \in Reqs :
      /\ (req[r].op = "idle" /\ DaPaso(r) /\ OpDelPaso(r) = "eliminar") =>
          \A t \in TicketIds : (Visible(t) /\ t \in {req'[r].ticket, resp'.ticket}) =>
            \A actor \in UserIds :
              (Usuarios[actor].rol # "admin" /\ ER_Ticket_BeginDe(r, actor, t))
                => /\ req'[r].pc = "done"
                   /\ resp'.op = "eliminar" /\ resp'.status = 403
                   /\ tickets' = tickets /\ historial' = historial
                   /\ adjuntos' = adjuntos /\ notifs' = notifs
      /\ (req[r].pc = "et_destroy" /\ DaPaso(r) /\ resp'.status = 200) =>
          \A t \in TicketIds : req[r].ticket = t => ~Visible(t)'
      /\ (DaPaso(r) /\ OpDelPaso(r) = "eliminar") =>
          (notifs' = notifs /\ disparos' = disparos)]_vars

\* An admin deleted a ticket that had an attachment and notifications: the
\* ticket, its history and its attachment are gone, the notifications are
\* there, and no delivery was triggered.
C31_Witness ==
  /\ resp.op = "eliminar" /\ resp.status = 200
  /\ ~tickets[resp.ticket].existe
  /\ nextAdj > 1 /\ adjuntos = {}
  /\ historial = <<>>
  /\ \E n \in notifs : n.ticket = resp.ticket
  /\ disparos = {}
  /\ FilaLog("ELIMINAR", resp.ticket, 0) \in logs

\* C32: the estado of every ticket row, committed or not, is one of abierto,
\* pendiente, pendiente_adjuntos, autorizado, rechazado, cerrado, whatever
\* create, cambiar-estado (with any nuevo_estado) and upload requests ran.
C32_EstadoEnElConjunto ==
  \A t \in TicketIds :
    tickets[t].existe =>
      tickets[t].estado \in {"abierto", "pendiente", "pendiente_adjuntos",
                             "autorizado", "rechazado", "cerrado"}

\* A cambiar-estado request with a nuevo_estado that names no state was
\* answered 400 on a ticket that an earlier request, written " CERRADO ", had
\* closed.
C32_Witness ==
  /\ resp.op = "cambiar" /\ resp.status = 400 /\ resp.kind = "estado_invalido"
  /\ resp.pedido = "archivado"
  /\ Visible(resp.ticket) /\ tickets[resp.ticket].estado = "cerrado"
  /\ C32_EstadoEnElConjunto

\* C33: only notifications of canal interno carry a fecha_lectura: no
\* marcar-leida request sets it on a notification of canal email or of any
\* other canal.
C33_LecturaSoloInterno ==
  \A n \in notifs : n.canal # "interno" => n.lectura = 0

\* C34: no step of an upload request that read its ticket in abierto or
\* pendiente changes a ticket row, the history, the notifications or the
\* delivery triggers, and its answer does not say the ticket was enabled;
\* attachment rows are what it writes.
C34_AdjuntarSoloAdjuntos ==
  [][\A r \in Reqs :
       (/\ req[r].op = "adjuntar" /\ req[r].entrada \in {"abierto", "pendiente"}
        /\ DaPaso(r))
         => /\ tickets' = tickets
            /\ historial' = historial
            /\ notifs' = notifs
            /\ disparos' = disparos
            /\ ~req'[r].finalizo
            /\ Termina(r) => ~resp'.finalizo]_vars

\* An upload on a ticket read in abierto has committed its attachment: the
\* ticket is in abierto, its history is the creation and the change to
\* abierto, and nothing was triggered.
C34_Witness ==
  \E r \in Reqs :
    /\ req[r].op = "adjuntar" /\ req[r].pc = "af_post"
    /\ req[r].entrada = "abierto"
    /\ tickets[req[r].ticket].estado = "abierto"
    /\ AdjDe(req[r].ticket) # {}
    /\ Len(HistDe(req[r].ticket)) = 2
    /\ disparos = {}

\* C35: a cambiar-estado request for pendiente_adjuntos is answered 400 as
\* an invalid state, whoever asks and whatever the ticket, and no step of a
\* create, cambiar-estado or upload request puts a ticket row into
\* pendiente_adjuntos: a row is in that state only if it was before the step.
C35_NadieVuelveAEspera ==
  [][/\ \A r \in Reqs :
          (DaPaso(r) /\ req[r].op = "idle" /\ OpDelPaso(r) = "cambiar"
             /\ resp'.pedido = "pendiente_adjuntos" /\ req'[r].pc = "done")
            => (resp'.status = 400 /\ resp'.kind = "estado_invalido")
     /\ \A r \in Reqs : req'[r].nuevo # "pendiente_adjuntos"
     /\ \A t \in TicketIds :
          (tickets'[t].existe /\ tickets'[t].estado = "pendiente_adjuntos")
            => (tickets[t].existe /\ tickets[t].estado = "pendiente_adjuntos")]_vars

\* A supervisor asked to put a ticket that a create request made (the second
\* of the store) into pendiente_adjuntos and was refused; the ticket is in
\* pendiente.
C35_Witness ==
  /\ resp.op = "cambiar" /\ resp.pedido = "pendiente_adjuntos" /\ resp.puede
  /\ resp.status = 400 /\ resp.kind = "estado_invalido"
  /\ resp.ticket = 2 /\ Visible(2) /\ tickets[2].estado = "pendiente"

C37_BorrarAdjuntoNoReabre ==
  [][/\ \A r \in Reqs :
          (DaPaso(r) /\ OpDelPaso(r) = "eliminar_adjunto")
            => /\ tickets' = tickets /\ historial' = historial
               /\ notifs' = notifs /\ disparos' = disparos
     /\ \A t \in TicketIds :
          (Visible(t) /\ Activaciones(t) # {})
            => /\ tickets'[t] = tickets[t]
               /\ tickets'[t].estado = "pendiente"
               /\ historial' = historial
               /\ notifs' = notifs
               /\ disparos' = disparos]_vars

\* The only attachment of a ticket that passed the gate was deleted and an
\* upload on the ticket then committed: the new attachment is the only one,
\* the ticket is in pendiente with the two history entries it had, and the
\* answer does not say the ticket was enabled.
C37_Witness ==
  /\ resp.op = "adjuntar" /\ resp.status = 200 /\ ~resp.finalizo
  /\ resp.ticket = 1 /\ tickets[1].estado = "pendiente"
  /\ FilaLog("ELIMINAR", 1, 1) \in logs
  /\ {a.id : a \in AdjDe(1)} = {2}
  /\ Len(HistDe(1)) = 2 /\ Cardinality(Activaciones(1)) = 1
  /\ disparos = {1}

C39_CorridaSoloSusPendientes ==
  [][\A w \in Corridas :
       PasoCorrida(w) =>
         /\ tickets' = tickets /\ historial' = historial /\ adjuntos' = adjuntos
         /\ {ClaveNotif(n) : n \in notifs'} = {ClaveNotif(n) : n \in notifs}
         /\ \A n \in notifs \ notifs' :
              /\ n.tx = 0 /\ n.ticket = corridas[w].ticket /\ n.canal = "email"
              /\ \E i \in 1..Len(corridas[w].lista) : corridas[w].lista[i] = n.destino
         /\ corridas[w].pc = "w_cargar" =>
              /\ notifs' = notifs
              /\ {corridas'[w].lista[i] : i \in 1..Len(corridas'[w].lista)}
                   = {n.destino : n \in {m \in notifs :
                        /\ m.tx = 0 /\ m.ticket = corridas[w].ticket
                        /\ m.canal = "email" /\ m.estado_envio = "pendiente"}}
         /\ corridas[w].pc \in {"w_dest", "w_send", "w_marca"} =>
              /\ corridas'[w].lista = corridas[w].lista
              /\ corridas'[w].ticket = corridas[w].ticket
         /\ (corridas[w].pc = "idle"
               /\ \E t \in TicketIds : corridas'[w].ticket = t /\ ~Visible(t))
              => /\ corridas'[w].pc = "done"
                 /\ notifs' = notifs /\ envios' = envios]_vars

\* A delivery call for ticket 1 has ended after marking its email
\* notifications, while the ticket a create request made since has its email
\* notifications pending and the internal notifications of both tickets are
\* as the fan-outs wrote them.
C39_Witness ==
  \E w \in Corridas :
    /\ corridas[w].pc = "done" /\ corridas[w].ticket = 1
    /\ corridas[w].lista # <<>>
    /\ \A n \in NotifsDe(1) :
         IF n.canal = "email" THEN n.estado_envio # "pendiente" /\ n.fecha # 0
         ELSE n.estado_envio = "enviado" /\ n.fecha = 0
    /\ \E n \in NotifsDe(2) : n.canal = "email"
    /\ \A n \in NotifsDe(2) :
         IF n.canal = "email" THEN n.estado_envio = "pendiente" /\ n.fecha = 0
         ELSE n.estado_envio = "enviado" /\ n.fecha = 0
====
